---- MODULE Spec2Model ----
(***************************************************************************)
(* Model of the structured-output recovery and resilience layer of the     *)
(* ABC scripts: call_gemini (lib/common.py), anki_invoke, main, the        *)
(* decoding of the response in generate_flashcards, _fix_json_escapes and  *)
(* _fix_math_in_text (generate_flashcards.py), is_gpu_available and main   *)
(* (transcribe.py), and of the steps around it: pdf_to_images and          *)
(* compile_latex under solve_mcq.main, the readiness poll of               *)
(* transcribe_with_gemini, identify_speakers_and_fix, the tagging in       *)
(* process_file, and annotate_code.main.                                   *)
(*                                                                         *)
(* Each component has its own specification (SpecGemini, SpecAnki,         *)
(* SpecTranscribe, SpecBatch, SpecEscape, SpecMath, SpecDecode,            *)
(* SpecRender, SpecUpload, SpecFix, SpecTag, SpecAnnotate); the            *)
(* variables of the other components stay parked at their idle values.     *)
(* Temperatures are counted in tenths (1.0 is 10, 1.5 is 15, 2.0 is 20).   *)
(* A text is a sequence of one-character strings; "<tick>" stands for the  *)
(* backtick.                                                               *)
(***************************************************************************)
EXTENDS Integers, Sequences, FiniteSets, TLC

VARIABLES
    \* call_gemini
    gPc,            \* position in call_gemini
    gHasKey,        \* config["gemini_api_key"] is set
    gTemperature,   \* the temperature argument
    gResponse,      \* the local variable response
    gTemps,         \* temperature of every request issued, in order
    gOutcomes,      \* what every request produced, in order
    gErr,           \* the exception that left call_gemini, if any
    gResult,        \* the returned text, if any
    \* anki_invoke
    aPc, aMax, aAttempt, aLastError, aWaits, aOutcomes, aResult, aErr,
    \* transcribe.main
    tPc, tFallback, tFileExists, tEnv, tUseGpu, tProbes,
    tBackends,      \* the transcription backends invoked, in order
    tRan,           \* how the invoked backend ended
    \* generate_flashcards.main
    mPc, mPromptExists, mApiKey, mFiles, mIdx, mCalls, mLog, mResults, mSummary,
    \* _fix_json_escapes, _fix_math_in_text applied repeatedly
    eHistory,       \* a text and the results of repairing it again and again
    fHistory,       \* a text and the results of transforming it again and again
    \* the decoding of the response in generate_flashcards
    dPc,            \* position in the decoding
    dShape,         \* how the response text was put together
    dResult,        \* the local variable result
    dJson,          \* the local variable json_str
    dData,          \* the local variable data
    dErr,           \* the exception that left generate_flashcards, if any
    dCalls,         \* number of call_gemini calls generate_flashcards made
    \* solve_mcq.main on one exam file, with pdf_to_images and compile_latex
    rPc,            \* position in the processing of the file
    rEnv,           \* what pdftoppm and the two pdflatex runs will do
    rImages,        \* the local variable images (their number)
    rPdfExists,     \* os.path.exists(pdf_path)
    rErr,           \* the exception that left main, if any
    \* transcribe_with_gemini: the upload and the readiness poll
    uPc,            \* position in transcribe_with_gemini
    uWaited,        \* the local variable waited
    uPolls,         \* number of client.files.get calls made
    uSeen,          \* what the last poll produced
    uGenerated,     \* number of generate_content requests issued
    uErr,           \* the exception that left transcribe_with_gemini, if any
    \* identify_speakers_and_fix
    iPc,            \* before or after the call
    iCall,          \* the arguments and what the call will meet
    iResult,        \* the returned text
    \* process_file run repeatedly on one file
    kPc,            \* whether runs are being made
    kTags,          \* the tags stored in the file's user.xdg.tags
    kLog,           \* how every run ended and the note ids it got
    \* annotate_code.main run repeatedly on one file
    nPc,            \* whether runs are being made
    nFile,          \* content of the file
    nBak,           \* content of file.bak
    nOther,         \* content of the file named by --output
    nLog            \* what every run read and how it ended

gVars == <<gPc, gHasKey, gTemperature, gResponse, gTemps, gOutcomes, gErr, gResult>>
aVars == <<aPc, aMax, aAttempt, aLastError, aWaits, aOutcomes, aResult, aErr>>
tVars == <<tPc, tFallback, tFileExists, tEnv, tUseGpu, tProbes, tBackends, tRan>>
mVars == <<mPc, mPromptExists, mApiKey, mFiles, mIdx, mCalls, mLog, mResults, mSummary>>
pVars == <<eHistory, fHistory, dPc, dShape, dResult, dJson, dData, dErr, dCalls>>
rVars == <<rPc, rEnv, rImages, rPdfExists, rErr>>
uVars == <<uPc, uWaited, uPolls, uSeen, uGenerated, uErr>>
iVars == <<iPc, iCall, iResult>>
kVars == <<kPc, kTags, kLog>>
nVars == <<nPc, nFile, nBak, nOther, nLog>>
sVars == <<rVars, uVars, iVars, kVars, nVars>>
vars == <<gVars, aVars, tVars, mVars, pVars, sVars>>

\* Python's None
NoneV == "<None>"

Last(s) == s[Len(s)]

RECURSIVE SeqsUpTo(_, _)
\* all sequences over S of length 0..n
SeqsUpTo(S, n) ==
    IF n = 0 THEN {<<>>}
    ELSE LET shorter == SeqsUpTo(S, n - 1)
         IN  shorter \cup {Append(s, x) : s \in {t \in shorter : Len(t) = n - 1}, x \in S}

(***************************************************************************)
(* call_gemini                                                             *)
(***************************************************************************)

\* default of the temperature parameter: 1.0
TempDefault == 10
\* first escalation: 1.5
Temp15 == 15
\* second escalation: 2.0
Temp20 == 20
\* bound on the lines of a response text
MaxLines == 2

\* temperatures a caller may pass: 0.0 to 2.0 (in steps of 0.5 here)
Temperatures == {t \in 0..Temp20 : t % 5 = 0}

\* the lines a response text is made of; <fence> is a run of three backticks
Lines == {"<fence>json", "<fence>", "x"}
Texts == SeqsUpTo(Lines, MaxLines) \ {<<>>}

\* candidates[0].finish_reason of a response; <<>> is a response without candidates
FinishReasons == {"STOP", "RECITATION", "IMAGE_RECITATION", "SAFETY"}
Candidates == {<<>>} \cup {<<f>> : f \in FinishReasons}

Responses ==
    [kind : {"response"}, hasText : {TRUE}, text : Texts, candidates : Candidates]
    \cup [kind : {"response"}, hasText : {FALSE}, text : {<<>>}, candidates : Candidates]

\* generate_content raising (network or server error)
TransportError == [kind |-> "exception", hasText |-> FALSE, text |-> <<>>, candidates |-> <<>>]

GeminiOutcomes == Responses \cup {TransportError}

\* value of response before the first assignment
NoResponse == [kind |-> "unset", hasText |-> FALSE, text |-> <<>>, candidates |-> <<>>]

\* 'RECITATION' in str(candidate.finish_reason)
ContainsRecitation(f) == f \in {"RECITATION", "IMAGE_RECITATION"}

IsRecitationError(resp) ==
    IF resp.hasText THEN FALSE
    ELSE IF resp.candidates # <<>> THEN ContainsRecitation(resp.candidates[1])
    ELSE FALSE

ShouldEscalateTo15Flipped(resp, temperature) ==
    IsRecitationError(resp) /\ temperature > Temp15
\* the condition of the first retry
ShouldEscalateTo15(resp, temperature) ==
    IsRecitationError(resp) /\ temperature < Temp15

ShouldEscalateTo20OnAnyNull(resp) == ~resp.hasText
\* the condition of the second retry
ShouldEscalateTo20(resp) == IsRecitationError(resp)

NextStageLoop(stage) ==
    CASE stage = "first" -> "check1"
      [] stage = "check1" -> "check2"
      [] stage = "check2" -> "check2"
\* where control goes after the request issued at a stage returned a response
NextStage(stage) ==
    CASE stage = "first" -> "check1"
      [] stage = "check1" -> "check2"
      [] stage = "check2" -> "final"

OnTransportErrorSwallow(stage) == NextStage(stage)
\* where control goes when the request raises: no handler, the exception leaves
OnTransportError(stage) == "raised"

\* _do_request(temp) at a stage, producing outcome o
DoRequest(temp, o, stage) ==
    /\ gTemps' = Append(gTemps, temp)
    /\ gOutcomes' = Append(gOutcomes, o)
    /\ IF o.kind = "exception"
       THEN /\ gPc' = OnTransportError(stage)
            /\ gErr' = IF gPc' = "raised" THEN "TransportError" ELSE gErr
            /\ UNCHANGED gResponse
       ELSE /\ gPc' = NextStage(stage)
            /\ gResponse' = o
            /\ UNCHANGED gErr
    /\ UNCHANGED <<gHasKey, gTemperature, gResult>>

\* removal of a surrounding markdown code block from the stripped text
StripFence(lines) ==
    IF lines[1] \in {"<fence>json", "<fence>"}
    THEN LET rest == Tail(lines)
         IN  IF rest # <<>> /\ Last(rest) = "<fence>"
             THEN SubSeq(rest, 1, Len(rest) - 1)
             ELSE rest
    ELSE lines

\* get_gemini_client: exits the process when no API key is configured
GeminiGetClient ==
    /\ gPc = "idle"
    /\ IF gHasKey
       THEN gPc' = "first" /\ UNCHANGED gErr
       ELSE gPc' = "exit" /\ gErr' = "SystemExit"
    /\ UNCHANGED <<gHasKey, gTemperature, gResponse, gTemps, gOutcomes, gResult>>
    /\ UNCHANGED <<aVars, tVars, mVars, pVars, sVars>>

\* first attempt with the requested temperature
GeminiFirstAttempt ==
    /\ gPc = "first"
    /\ \E o \in GeminiOutcomes : DoRequest(gTemperature, o, "first")
    /\ UNCHANGED <<aVars, tVars, mVars, pVars, sVars>>

\* if RECITATION and temperature < 1.5: retry with 1.5
GeminiRetry15 ==
    /\ gPc = "check1"
    /\ IF ShouldEscalateTo15(gResponse, gTemperature)
       THEN \E o \in GeminiOutcomes : DoRequest(Temp15, o, "check1")
       ELSE gPc' = "check2"
            /\ UNCHANGED <<gHasKey, gTemperature, gResponse, gTemps, gOutcomes, gErr, gResult>>
    /\ UNCHANGED <<aVars, tVars, mVars, pVars, sVars>>

\* if still RECITATION: retry with 2.0
GeminiRetry20 ==
    /\ gPc = "check2"
    /\ IF ShouldEscalateTo20(gResponse)
       THEN \E o \in GeminiOutcomes : DoRequest(Temp20, o, "check2")
       ELSE gPc' = "final"
            /\ UNCHANGED <<gHasKey, gTemperature, gResponse, gTemps, gOutcomes, gErr, gResult>>
    /\ UNCHANGED <<aVars, tVars, mVars, pVars, sVars>>

\* the None check, then the clean-up of the text and the return
GeminiFinish ==
    /\ gPc = "final"
    /\ IF ~gResponse.hasText
       THEN gPc' = "raised" /\ gErr' = "ValueError" /\ UNCHANGED gResult
       ELSE gPc' = "returned" /\ gResult' = StripFence(gResponse.text) /\ UNCHANGED gErr
    /\ UNCHANGED <<gHasKey, gTemperature, gResponse, gTemps, gOutcomes>>
    /\ UNCHANGED <<aVars, tVars, mVars, pVars, sVars>>

GeminiIdle ==
    /\ gPc = "parked" /\ gHasKey = FALSE /\ gTemperature = TempDefault
    /\ gResponse = NoResponse /\ gTemps = <<>> /\ gOutcomes = <<>>
    /\ gErr = NoneV /\ gResult = <<>>

GeminiStart ==
    /\ gPc = "idle"
    /\ gHasKey \in BOOLEAN
    /\ gTemperature \in Temperatures
    /\ gResponse = NoResponse /\ gTemps = <<>> /\ gOutcomes = <<>>
    /\ gErr = NoneV /\ gResult = <<>>

(***************************************************************************)
(* anki_invoke                                                             *)
(***************************************************************************)

\* default of the max_retries parameter
DefaultMaxRetries == 3
\* bound on the max_retries values explored
MaxRetriesBound == 3

AnkiResultValues == {"r1", "r2"}

\* the error field of a response: null, or a text that may contain the
\* markers 'INTERNAL' and '500'
NoError == [isNone |-> TRUE, internal |-> FALSE, c500 |-> FALSE]
AnkiErrors == {NoError} \cup [isNone : {FALSE}, internal : BOOLEAN, c500 : BOOLEAN]

\* what one request can produce: urlopen raising URLError, anything else
\* raising (a read timeout, a body that is not JSON), or a decoded response
\* (wellFormed: it has exactly 2 entries)
AnkiOutcomes ==
    [kind : {"URLError", "OtherException"}]
    \cup [kind : {"response"}, wellFormed : BOOLEAN, error : AnkiErrors,
          result : AnkiResultValues]

\* 'INTERNAL' in str(error) or '500' in str(error)
IsRetryable(error) == error.internal \/ error.c500

WaitTimeConstant(attempt) == 2
\* wait_time = (attempt + 1) * 2
WaitTime(attempt) == (attempt + 1) * 2

HasBudgetAlways(attempt, max) == TRUE
\* attempt < max_retries - 1
HasBudget(attempt, max) == attempt < max - 1

LoopContinuesInclusive(attempt, max) == attempt <= max
\* for attempt in range(max_retries)
LoopContinues(attempt, max) == attempt < max

AnkiBackoff ==
    /\ aWaits' = Append(aWaits, WaitTime(aAttempt))
    /\ aAttempt' = aAttempt + 1
    /\ UNCHANGED <<aPc, aResult, aErr>>

AnkiRaise(e) ==
    /\ aPc' = "raised"
    /\ aErr' = e
    /\ UNCHANGED <<aAttempt, aWaits, aResult>>

\* one iteration of the retry loop
AnkiAttempt ==
    /\ aPc = "loop"
    /\ LoopContinues(aAttempt, aMax)
    /\ \E o \in AnkiOutcomes :
        /\ aOutcomes' = Append(aOutcomes, o)
        /\ CASE o.kind = "URLError" ->
                  /\ aLastError' = "URLError"
                  /\ IF HasBudget(aAttempt, aMax)
                     THEN AnkiBackoff
                     ELSE AnkiRaise("Cannot connect to Anki")
             [] o.kind = "OtherException" ->
                  /\ AnkiRaise("OtherException")
                  /\ UNCHANGED aLastError
             [] o.kind = "response" ->
                  IF ~o.wellFormed
                  THEN AnkiRaise("Unexpected response format") /\ UNCHANGED aLastError
                  ELSE IF ~o.error.isNone
                  THEN IF IsRetryable(o.error)
                       THEN /\ aLastError' = "Anki-Connect error"
                            /\ IF HasBudget(aAttempt, aMax)
                               THEN AnkiBackoff
                               ELSE AnkiRaise("Anki-Connect error")
                       ELSE AnkiRaise("Anki-Connect error") /\ UNCHANGED aLastError
                  ELSE /\ aPc' = "returned"
                       /\ aResult' = o.result
                       /\ UNCHANGED <<aAttempt, aWaits, aErr, aLastError>>
    /\ UNCHANGED aMax
    /\ UNCHANGED <<gVars, tVars, mVars, pVars, sVars>>

\* the statements after the loop
AnkiExhausted ==
    /\ aPc = "loop"
    /\ ~LoopContinues(aAttempt, aMax)
    /\ IF aLastError # NoneV
       THEN AnkiRaise(aLastError)
       ELSE AnkiRaise("Failed after all retry attempts")
    /\ UNCHANGED <<aMax, aLastError, aOutcomes>>
    /\ UNCHANGED <<gVars, tVars, mVars, pVars, sVars>>

AnkiIdle ==
    /\ aPc = "parked" /\ aMax = 0 /\ aAttempt = 0 /\ aLastError = NoneV
    /\ aWaits = <<>> /\ aOutcomes = <<>> /\ aResult = NoneV /\ aErr = NoneV

AnkiStart ==
    /\ aPc = "loop"
    /\ aMax \in 0..MaxRetriesBound
    /\ aAttempt = 0 /\ aLastError = NoneV
    /\ aWaits = <<>> /\ aOutcomes = <<>> /\ aResult = NoneV /\ aErr = NoneV

(***************************************************************************)
(* transcribe: is_gpu_available and the backend selection of main          *)
(***************************************************************************)

\* timeout of the nvidia-smi run, in seconds
ProbeTimeout == 5
\* bound on the length of the probe's output
MaxOut == 3

\* the characters of the probe's output: blank, newline, and p for any
\* character of a process record
Chars == {" ", "\n", "p"}
Whitespace == {" ", "\n"}
Outputs == SeqsUpTo(Chars, MaxOut)

RECURSIVE LStrip(_)
LStrip(s) == IF s # <<>> /\ s[1] \in Whitespace THEN LStrip(Tail(s)) ELSE s

RECURSIVE RStrip(_)
RStrip(s) ==
    IF s # <<>> /\ Last(s) \in Whitespace THEN RStrip(SubSeq(s, 1, Len(s) - 1)) ELSE s

\* str.strip()
Strip(s) == RStrip(LStrip(s))

RECURSIVE Split(_, _)
\* str.split(sep)
Split(s, sep) ==
    IF \E i \in 1..Len(s) : s[i] = sep
    THEN LET i == CHOOSE k \in 1..Len(s) : s[k] = sep /\ \A j \in 1..(k - 1) : s[j] # sep
         IN  <<SubSeq(s, 1, i - 1)>> \o Split(SubSeq(s, i + 1, Len(s)), sep)
    ELSE <<s>>

\* [l for l in processes.split('\n') if l.strip()]
ProcessLines(s) == SelectSeq(Split(s, "\n"), LAMBDA l : Strip(l) # <<>>)

\* the state of the local resource as the probe would find it: whether
\* nvidia-smi can be started, how long it runs, its exit code and its output
ProbeEnvs ==
    [tool : {"present", "absent", "broken"}, seconds : {ProbeTimeout, ProbeTimeout + 1},
     returncode : {0, 1}, stdout : Outputs]

\* subprocess.run(..., timeout=5): the completed process, or the exception raised
RunProbe(env) ==
    IF env.tool = "absent" THEN "FileNotFoundError"
    ELSE IF env.tool = "broken" THEN "Exception"
    ELSE IF env.seconds > ProbeTimeout THEN "TimeoutExpired"
    ELSE "completed"

IsGpuAvailableIgnoringExitCode(env) ==
    IF RunProbe(env) # "completed" THEN FALSE
    ELSE IF Strip(env.stdout) # <<>> THEN FALSE
    ELSE TRUE
\* is_gpu_available()
IsGpuAvailable(env) ==
    IF RunProbe(env) # "completed" THEN FALSE
    ELSE IF env.returncode # 0 THEN FALSE
    ELSE IF Strip(env.stdout) # <<>> THEN FALSE
    ELSE TRUE

NeedsProbeUnlessGpu(fallback) == fallback # "gpu"
\* the else branch of the selection: neither "gpu" nor "gemini" is forced
NeedsProbe(fallback) == fallback \notin {"gpu", "gemini"}

\* File not found: exit(1)
TranscribeCheckFile ==
    /\ tPc = "start"
    /\ tPc' = IF tFileExists THEN "select" ELSE "exit"
    /\ UNCHANGED <<tFallback, tFileExists, tEnv, tUseGpu, tProbes, tBackends, tRan>>
    /\ UNCHANGED <<gVars, aVars, mVars, pVars, sVars>>

\* "Determine which backend to use"
TranscribeSelectBackend ==
    /\ tPc = "select"
    /\ IF NeedsProbe(tFallback)
       THEN tUseGpu' = IsGpuAvailable(tEnv) /\ tProbes' = tProbes + 1
       ELSE tUseGpu' = (tFallback = "gpu") /\ UNCHANGED tProbes
    /\ tPc' = "transcribe"
    /\ UNCHANGED <<tFallback, tFileExists, tEnv, tBackends, tRan>>
    /\ UNCHANGED <<gVars, aVars, mVars, pVars, sVars>>

\* how a backend can end: it returns a transcript, it ends the process with
\* exit(1), or an exception leaves it
BackendEndings == {"transcript", "exit", "raise"}

OnBackendFailureTryAgain(ending) == "transcribe"
\* where main is after a backend did not return: nothing catches the exit
\* or the exception
OnBackendFailure(ending) == IF ending = "exit" THEN "exit" ELSE "raised"

\* "Step 1: Transcribe": transcribe_with_diarization or transcribe_with_gemini
TranscribeRun ==
    /\ tPc = "transcribe"
    /\ tBackends' = Append(tBackends, IF tUseGpu THEN "local" ELSE "remote")
    /\ \E ending \in BackendEndings :
        /\ tRan' = ending
        /\ tPc' = IF ending = "transcript" THEN "fix" ELSE OnBackendFailure(ending)
    /\ UNCHANGED <<tFallback, tFileExists, tEnv, tUseGpu, tProbes>>
    /\ UNCHANGED <<gVars, aVars, mVars, pVars, sVars>>

TranscribeIdle ==
    /\ tPc = "parked" /\ tFallback = "auto" /\ tFileExists = FALSE
    /\ tEnv = [tool |-> "absent", seconds |-> ProbeTimeout, returncode |-> 0, stdout |-> <<>>]
    /\ tUseGpu = FALSE /\ tProbes = 0 /\ tBackends = <<>> /\ tRan = NoneV

TranscribeStart ==
    /\ tPc = "start"
    /\ tFallback \in {"auto", "gemini", "gpu"}
    /\ tFileExists \in BOOLEAN
    /\ tEnv \in ProbeEnvs
    /\ tUseGpu = FALSE /\ tProbes = 0 /\ tBackends = <<>> /\ tRan = NoneV

(***************************************************************************)
(* generate_flashcards: process_file and the batch loop of main            *)
(***************************************************************************)

\* bound on the number of files of a batch
MaxBatch == 3
\* bound on the number of cards the model returns for a file
MaxCards == 1

\* a batch: files 1..n in command-line order, each a PDF or not
Batches ==
    UNION {[1..n -> [pdf : BOOLEAN]] : n \in 1..MaxBatch}

\* the note ids addNotes returns: null for a duplicate
NoteIdSeqs == SeqsUpTo({"null", "id"}, MaxCards)

\* where the environment makes the processing of a file fail, if anywhere,
\* and the note ids Anki returns if nowhere
FailurePoints ==
    {"anki_before", "extract", "gemini_empty", "gemini_transport",
     "decode_no_object", "decode_invalid_json", "decode_missing_keys", "anki_after"}
ItemScripts ==
    [failAt : FailurePoints, ids : {<<>>}] \cup [failAt : {"none"}, ids : NoteIdSeqs]

AddedCountsEveryId(ids) == Len(ids)
\* added = sum(1 for nid in note_ids if nid is not None)
Added(ids) == Cardinality({i \in 1..Len(ids) : ids[i] # "null"})

Raises(msg) == [kind |-> "raise", error |-> msg, added |-> 0, skipped |-> 0]
Exits == [kind |-> "exit", error |-> "SystemExit", added |-> 0, skipped |-> 0]

\* process_file on one file: how the call ends
ProcessFile(file, script, promptExists, apiKey) ==
    IF script.failAt = "anki_before" THEN Raises("Anki-Connect error")
    ELSE IF script.failAt = "extract"
    THEN IF file.pdf THEN Exits ELSE Raises("Cannot read file")
    ELSE IF ~promptExists THEN Exits
    ELSE IF ~apiKey THEN Exits
    ELSE IF script.failAt = "gemini_empty" THEN Raises("Gemini returned empty response")
    ELSE IF script.failAt = "gemini_transport" THEN Raises("TransportError")
    ELSE IF script.failAt = "decode_no_object" THEN Raises("No JSON object found in response")
    ELSE IF script.failAt = "decode_invalid_json" THEN Raises("LLM did not return valid JSON")
    ELSE IF script.failAt = "decode_missing_keys"
    THEN Raises("Response missing 'deck' or 'cards' field")
    ELSE IF script.failAt = "anki_after" THEN Raises("Anki-Connect error")
    ELSE [kind |-> "return", error |-> NoneV,
          added |-> Added(script.ids), skipped |-> Len(script.ids) - Added(script.ids)]

RecordFailureDropped(results, name, msg) == results
\* results.append({'file': file_path, 'error': str(e)})
RecordFailure(results, name, msg) ==
    Append(results, [file |-> name, hasError |-> TRUE, error |-> msg,
                     added |-> 0, skipped |-> 0])

\* results.append(result)
RecordSuccess(results, name, out) ==
    Append(results, [file |-> name, hasError |-> FALSE, error |-> NoneV,
                     added |-> out.added, skipped |-> out.skipped])

RECURSIVE SumOf(_, _)
SumOf(results, field) ==
    IF results = <<>> THEN 0
    ELSE results[1][field] + SumOf(Tail(results), field)

\* ensure_anki_running, else exit(1)
BatchConnect ==
    /\ mPc = "start"
    /\ \E up \in BOOLEAN : mPc' = IF up THEN "loop" ELSE "exit"
    /\ UNCHANGED <<mPromptExists, mApiKey, mFiles, mIdx, mCalls, mLog, mResults, mSummary>>
    /\ UNCHANGED <<gVars, aVars, tVars, pVars, sVars>>

\* one iteration of: for file_path in args.files
BatchItem ==
    /\ mPc = "loop"
    /\ mIdx < Len(mFiles)
    /\ \E script \in ItemScripts :
        LET i == mIdx + 1
            out == ProcessFile(mFiles[i], script, mPromptExists, mApiKey)
        IN  /\ mCalls' = Append(mCalls, i)
            /\ mLog' = Append(mLog, [pdf |-> mFiles[i].pdf, failAt |-> script.failAt,
                                     kind |-> out.kind, ids |-> script.ids])
            /\ CASE out.kind = "return" ->
                      /\ mResults' = RecordSuccess(mResults, i, out)
                      /\ mIdx' = i
                      /\ UNCHANGED mPc
                 [] out.kind = "raise" ->
                      /\ mResults' = RecordFailure(mResults, i, out.error)
                      /\ mIdx' = i
                      /\ UNCHANGED mPc
                 [] out.kind = "exit" ->
                      /\ mPc' = "exit"
                      /\ UNCHANGED <<mResults, mIdx>>
    /\ UNCHANGED <<mPromptExists, mApiKey, mFiles, mSummary>>
    /\ UNCHANGED <<gVars, aVars, tVars, pVars, sVars>>

\* the summary printed after the loop
BatchSummary ==
    /\ mPc = "loop"
    /\ mIdx >= Len(mFiles)
    /\ mSummary' = [added |-> SumOf(mResults, "added"),
                    skipped |-> SumOf(mResults, "skipped"),
                    errors |-> Cardinality({i \in 1..Len(mResults) : mResults[i].hasError})]
    /\ mPc' = "done"
    /\ UNCHANGED <<mPromptExists, mApiKey, mFiles, mIdx, mCalls, mLog, mResults>>
    /\ UNCHANGED <<gVars, aVars, tVars, pVars, sVars>>

NoSummary == [added |-> 0, skipped |-> 0, errors |-> 0]

BatchIdle ==
    /\ mPc = "parked" /\ mPromptExists = FALSE /\ mApiKey = FALSE
    /\ mFiles = <<>> /\ mIdx = 0 /\ mCalls = <<>> /\ mLog = <<>> /\ mResults = <<>>
    /\ mSummary = NoSummary

BatchStart ==
    /\ mPc = "start"
    /\ mPromptExists \in BOOLEAN /\ mApiKey \in BOOLEAN
    /\ mFiles \in Batches
    /\ mIdx = 0 /\ mCalls = <<>> /\ mLog = <<>> /\ mResults = <<>>
    /\ mSummary = NoSummary

(***************************************************************************)
(* generate_flashcards: _fix_json_escapes                                  *)
(*                                                                         *)
(* A text is a sequence of one-character strings.                          *)
(***************************************************************************)

\* bound on the length of a text handed to _fix_json_escapes
MaxEscLen == 6

\* the backslash character
Backslash == "\\"

\* valid_escapes = {'"', '\\', '/', 'b', 'f', 'n', 'r', 't', 'u'}
ValidEscapesWithoutN == {"\"", "\\", "/", "b", "f", "r", "t", "u"}
ValidEscapes == {"\"", "\\", "/", "b", "f", "n", "r", "t", "u"}

\* the characters of the texts to repair: the backslash, u, a letter that
\* makes a valid escape, a hex digit and a character that makes an invalid one
EscChars == {Backslash, "u", "n", "0", "("}
EscTexts == SeqsUpTo(EscChars, MaxEscLen)

InvalidEscapeTripled(next_char) == <<Backslash, Backslash, Backslash, next_char>>
InvalidEscapeKept(next_char) == <<Backslash, next_char>>
\* "Invalid escape - double the backslash"
InvalidEscape(next_char) == <<Backslash, Backslash, next_char>>

RECURSIVE FixJsonEscapesFrom(_, _, _)
\* the while loop, with i counted from 1
FixJsonEscapesFrom(json_str, i, result) ==
    IF i > Len(json_str) THEN result
    ELSE IF json_str[i] = Backslash /\ i + 1 <= Len(json_str)
    THEN LET next_char == json_str[i + 1]
         IN  IF next_char \in ValidEscapes
             THEN IF next_char = "u" /\ i + 5 <= Len(json_str)
                  THEN FixJsonEscapesFrom(json_str, i + 6,
                           result \o <<Backslash, next_char>> \o SubSeq(json_str, i + 2, i + 5))
                  ELSE FixJsonEscapesFrom(json_str, i + 2, result \o <<Backslash, next_char>>)
             ELSE IF next_char = Backslash
             THEN FixJsonEscapesFrom(json_str, i + 2, result \o <<Backslash, Backslash>>)
             ELSE FixJsonEscapesFrom(json_str, i + 2, result \o InvalidEscape(next_char))
    ELSE FixJsonEscapesFrom(json_str, i + 1, Append(result, json_str[i]))

FixJsonEscapesNothing(json_str) == json_str
\* _fix_json_escapes
FixJsonEscapes(json_str) == FixJsonEscapesFrom(json_str, 1, <<>>)

\* _fix_json_escapes applied to its own result
EscapeRepair ==
    /\ eHistory # <<>>
    /\ Len(eHistory) < 3
    /\ eHistory' = Append(eHistory, FixJsonEscapes(Last(eHistory)))
    /\ UNCHANGED <<fHistory, dPc, dShape, dResult, dJson, dData, dErr, dCalls>>
    /\ UNCHANGED <<gVars, aVars, tVars, mVars, sVars>>

EscapeIdle == eHistory = <<>>

EscapeStart == \E x \in EscTexts : eHistory = <<x>>

(***************************************************************************)
(* generate_flashcards: _fix_math_in_text                                  *)
(***************************************************************************)

\* bound on the length of a text handed to _fix_math_in_text
MaxMathLen == 6

\* the characters of the texts to transform: the backslash, the dollar sign,
\* a letter and a line break
MathChars == {Backslash, "$", "x", "\n"}
MathTexts == SeqsUpTo(MathChars, MaxMathLen)

\* text[i:i+n] is n times the character c, with i counted from 1
RunAt(text, i, n, c) ==
    /\ i + n - 1 <= Len(text)
    /\ \A k \in i..(i + n - 1) : text[k] = c

RECURSIVE CollapseBackslashesFrom(_, _, _)
\* re.sub(r'\\\\\\\\', r'\\\\', text): 4 backslashes become 2
CollapseBackslashesFrom(text, i, out) ==
    IF i > Len(text) THEN out
    ELSE IF RunAt(text, i, 4, Backslash)
    THEN CollapseBackslashesFrom(text, i + 4, out \o <<Backslash, Backslash>>)
    ELSE CollapseBackslashesFrom(text, i + 1, Append(out, text[i]))

\* where the lazy group of $$(.+?)$$ opened at i can end: the closing $$
DisplayClosings(text, i) ==
    {q \in (i + 3)..Len(text) : RunAt(text, q, 2, "$")}

RECURSIVE DisplayMathFrom(_, _, _)
\* re.sub(r'\$\$(.+?)\$\$', r'\\[\1\\]', text, flags=re.DOTALL)
DisplayMathFrom(text, i, out) ==
    IF i > Len(text) THEN out
    ELSE IF RunAt(text, i, 2, "$") /\ DisplayClosings(text, i) # {}
    THEN LET q == CHOOSE c \in DisplayClosings(text, i) :
                      \A d \in DisplayClosings(text, i) : c <= d
         IN  DisplayMathFrom(text, q + 2,
                 out \o <<Backslash, "[">> \o SubSeq(text, i + 2, q - 1) \o <<Backslash, "]">>)
    ELSE DisplayMathFrom(text, i + 1, Append(out, text[i]))

\* (?<!\$)\$(?!\$) at position i: a dollar sign with no dollar sign next to it
LoneDollarAt(text, i) ==
    /\ i <= Len(text) /\ text[i] = "$"
    /\ i > 1 => text[i - 1] # "$"
    /\ i < Len(text) => text[i + 1] # "$"

\* where the lazy group of the inline pattern opened at i can end: the group
\* has at least one character and, without DOTALL, no line break
InlineClosings(text, i) ==
    {q \in (i + 2)..Len(text) :
        /\ LoneDollarAt(text, q)
        /\ \A k \in (i + 1)..(q - 1) : text[k] # "\n"}

RECURSIVE InlineMathFrom(_, _, _)
\* re.sub(r'(?<!\$)\$(?!\$)(.+?)(?<!\$)\$(?!\$)', r'\\(\1\\)', text)
InlineMathFrom(text, i, out) ==
    IF i > Len(text) THEN out
    ELSE IF LoneDollarAt(text, i) /\ InlineClosings(text, i) # {}
    THEN LET q == CHOOSE c \in InlineClosings(text, i) :
                      \A d \in InlineClosings(text, i) : c <= d
         IN  InlineMathFrom(text, q + 1,
                 out \o <<Backslash, "(">> \o SubSeq(text, i + 1, q - 1) \o <<Backslash, ")">>)
    ELSE InlineMathFrom(text, i + 1, Append(out, text[i]))

\* _fix_math_in_text
FixMathInText(text) ==
    IF text = <<>> THEN text
    ELSE InlineMathFrom(
             DisplayMathFrom(CollapseBackslashesFrom(text, 1, <<>>), 1, <<>>), 1, <<>>)

\* _fix_math_in_text applied to its own result
MathTransform ==
    /\ fHistory # <<>>
    /\ Len(fHistory) < 3
    /\ fHistory' = Append(fHistory, FixMathInText(Last(fHistory)))
    /\ UNCHANGED <<eHistory, dPc, dShape, dResult, dJson, dData, dErr, dCalls>>
    /\ UNCHANGED <<gVars, aVars, tVars, mVars, sVars>>

MathIdle == fHistory = <<>>

MathStart == \E x \in MathTexts : fHistory = <<x>>

(***************************************************************************)
(* generate_flashcards: decoding the response of the model                 *)
(***************************************************************************)

\* the double quote and the backtick; three backticks make a fence
Quote == "\""
Tick == "<tick>"
Fence == <<Tick, Tick, Tick>>

\* text[i:i+len(sub)] == sub, with i counted from 1
MatchAt(text, i, sub) ==
    /\ i >= 1 /\ i + Len(sub) - 1 <= Len(text)
    /\ SubSeq(text, i, i + Len(sub) - 1) = sub

\* str.find(sub, from) counted from 1; 0 when sub does not occur
IndexOf(text, sub, from) ==
    IF \E i \in from..Len(text) : MatchAt(text, i, sub)
    THEN CHOOSE i \in from..Len(text) :
             MatchAt(text, i, sub) /\ \A j \in from..(i - 1) : ~MatchAt(text, j, sub)
    ELSE 0

RECURSIVE Join(_, _)
\* sep.join(lines)
Join(lines, sep) ==
    IF lines = <<>> THEN <<>>
    ELSE IF Len(lines) = 1 THEN lines[1]
    ELSE lines[1] \o <<sep>> \o Join(Tail(lines), sep)

CleanResponseDroppingLastLine(text) ==
    LET result == Strip(text)
    IN  IF MatchAt(result, 1, Fence)
        THEN LET lines == Tail(Split(result, "\n"))
             IN  Join(SubSeq(lines, 1, Len(lines) - 1), "\n")
        ELSE result
\* call_gemini, "Remove markdown code blocks if present", on the characters
\* of response.text
CleanResponse(text) ==
    LET result == Strip(text)
    IN  IF MatchAt(result, 1, Fence)
        THEN LET lines == Tail(Split(result, "\n"))
             IN  IF lines # <<>> /\ Strip(Last(lines)) = Fence
                 THEN Join(SubSeq(lines, 1, Len(lines) - 1), "\n")
                 ELSE Join(lines, "\n")
        ELSE result

\* re.search(r'<fence>(?:json)?\s*([\s\S]*?)\s*<fence>', result): the match
\* opens at the first fence, takes "json" when it follows, and closes at the
\* first fence after that; content is group(1).strip()
FenceSearch(result) ==
    LET open == IndexOf(result, Fence, 1)
        from == IF MatchAt(result, open + 3, <<"j", "s", "o", "n">>) THEN open + 7 ELSE open + 3
        close == IF open = 0 THEN 0 ELSE IndexOf(result, Fence, from)
    IN  [found |-> open # 0 /\ close # 0,
         content |-> IF open # 0 /\ close # 0
                     THEN Strip(SubSeq(result, from, close - 1)) ELSE <<>>]

\* result.strip(), then the content of the first fenced block if there is one
Unwrap(result) ==
    LET stripped == Strip(result)
    IN  IF IndexOf(stripped, Fence, 1) # 0 /\ FenceSearch(stripped).found
        THEN FenceSearch(stripped).content
        ELSE stripped

RECURSIVE BraceEnd(_, _, _)
\* the for loop over result[start_idx:]: the position of the closing brace
\* that brings brace_count back to 0, or 0 when the loop ends without one
BraceEnd(result, i, brace_count) ==
    IF i > Len(result) THEN 0
    ELSE IF result[i] = "{" THEN BraceEnd(result, i + 1, brace_count + 1)
    ELSE IF result[i] = "}"
    THEN IF brace_count - 1 = 0 THEN i ELSE BraceEnd(result, i + 1, brace_count - 1)
    ELSE BraceEnd(result, i + 1, brace_count)

StartIdxFirstChar(result) == 1
\* result.find('{')
StartIdx(result) == IndexOf(result, <<"{">>, 1)

JsonStrToEndOfText(result) == SubSeq(result, StartIdx(result), Len(result))
JsonStrClosingWhatIsOpen(result) ==
    LET end == BraceEnd(result, StartIdx(result), 0)
    IN  IF end = 0 THEN SubSeq(result, StartIdx(result), Len(result)) \o <<"}">>
        ELSE SubSeq(result, StartIdx(result), end)
\* json_str = result[start_idx:end_idx]; end_idx stays at start_idx when the
\* braces never balance
JsonStr(result) ==
    LET end == BraceEnd(result, StartIdx(result), 0)
    IN  IF end = 0 THEN <<>> ELSE SubSeq(result, StartIdx(result), end)

\* json.loads: a parsed value is [t, v] with t its type ("str", "num",
\* "lit", "arr", "obj") and v its content: the characters of a string, the
\* digits of a number, the letters of true, false and null, the items of an
\* array, the [k, v] entries of an object in insertion order
JsonWhitespace == {" ", "\t", "\n", "\r"}
Digits == {"0", "1", "2", "3", "4", "5", "6", "7", "8", "9"}
Literals == {<<"t", "r", "u", "e">>, <<"f", "a", "l", "s", "e">>, <<"n", "u", "l", "l">>}

HexDigits == {"0", "1", "2", "3", "4", "5", "6", "7", "8", "9",
              "a", "b", "c", "d", "e", "f", "A", "B", "C", "D", "E", "F"}

NoValue == [t |-> "none", v |-> <<>>]
ParseFail == [ok |-> FALSE, val |-> NoValue, pos |-> 0]
Parsed(val, pos) == [ok |-> TRUE, val |-> val, pos |-> pos]

\* the first position from i on that holds no whitespace
SkipWhitespace(s, i) ==
    CHOOSE j \in i..(Len(s) + 1) :
        /\ j = Len(s) + 1 \/ s[j] \notin JsonWhitespace
        /\ \A k \in i..(j - 1) : s[k] \in JsonWhitespace

CharAt(s, i) == IF i >= 1 /\ i <= Len(s) THEN s[i] ELSE "<end>"

\* the character a two-character escape stands for
Unescaped(c) ==
    CASE c = "b" -> "<BS>"
      [] c = "f" -> "\f"
      [] c = "n" -> "\n"
      [] c = "r" -> "\r"
      [] c = "t" -> "\t"
      [] OTHER -> c

\* a hex digit in lower case
Lower(h) ==
    CASE h = "A" -> "a" [] h = "B" -> "b" [] h = "C" -> "c"
      [] h = "D" -> "d" [] h = "E" -> "e" [] h = "F" -> "f"
      [] OTHER -> h

\* the character backslash-u and 4 hex digits stand for, named by its code
CodePoint(hex) ==
    "\\u" \o Lower(hex[1]) \o Lower(hex[2]) \o Lower(hex[3]) \o Lower(hex[4])

RECURSIVE ScanString(_, _, _)
\* the characters of a string literal from position i, after its opening
\* quote; strict mode rejects control characters
ScanString(s, i, chars) ==
    IF i > Len(s) THEN ParseFail
    ELSE IF s[i] = Quote THEN Parsed([t |-> "str", v |-> chars], i + 1)
    ELSE IF s[i] = Backslash
    THEN IF CharAt(s, i + 1) \in {Quote, Backslash, "/", "b", "f", "n", "r", "t"}
         THEN ScanString(s, i + 2, Append(chars, Unescaped(s[i + 1])))
         ELSE IF CharAt(s, i + 1) = "u" /\ i + 5 <= Len(s)
                 /\ \A k \in (i + 2)..(i + 5) : s[k] \in HexDigits
         THEN ScanString(s, i + 6, Append(chars, CodePoint(SubSeq(s, i + 2, i + 5))))
         ELSE ParseFail
    ELSE IF s[i] \in {"\n", "\t", "\r", "\f"} THEN ParseFail
    ELSE ScanString(s, i + 1, Append(chars, s[i]))

\* the digits of the integer that starts at i
NumberEnd(s, i) ==
    IF s[i] = "0" THEN i
    ELSE CHOOSE j \in i..Len(s) :
             /\ \A k \in i..j : s[k] \in Digits
             /\ j = Len(s) \/ s[j + 1] \notin Digits

\* dict assignment: a repeated key keeps its place and takes the new value
Put(entries, key, val) ==
    IF \E n \in 1..Len(entries) : entries[n].k = key
    THEN [n \in 1..Len(entries) |->
             IF entries[n].k = key THEN [k |-> key, v |-> val] ELSE entries[n]]
    ELSE Append(entries, [k |-> key, v |-> val])

RECURSIVE ParseValue(_, _)
RECURSIVE ParseMembers(_, _, _)
RECURSIVE ParseElements(_, _, _)

\* the members of an object from the opening quote of a key at i
ParseMembers(s, i, entries) ==
    IF CharAt(s, i) # Quote THEN ParseFail
    ELSE LET key == ScanString(s, i + 1, <<>>)
         IN  IF ~key.ok THEN ParseFail
             ELSE LET colon == SkipWhitespace(s, key.pos)
                  IN  IF CharAt(s, colon) # ":" THEN ParseFail
                      ELSE LET val == ParseValue(s, SkipWhitespace(s, colon + 1))
                           IN  IF ~val.ok THEN ParseFail
                               ELSE LET next == SkipWhitespace(s, val.pos)
                                        now == Put(entries, key.val.v, val.val)
                                    IN  IF CharAt(s, next) = "}"
                                        THEN Parsed([t |-> "obj", v |-> now], next + 1)
                                        ELSE IF CharAt(s, next) = ","
                                        THEN ParseMembers(s, SkipWhitespace(s, next + 1), now)
                                        ELSE ParseFail

\* the items of an array from the first character of an item at i
ParseElements(s, i, items) ==
    LET val == ParseValue(s, i)
    IN  IF ~val.ok THEN ParseFail
        ELSE LET next == SkipWhitespace(s, val.pos)
                 now == Append(items, val.val)
             IN  IF CharAt(s, next) = "]"
                 THEN Parsed([t |-> "arr", v |-> now], next + 1)
                 ELSE IF CharAt(s, next) = ","
                 THEN ParseElements(s, SkipWhitespace(s, next + 1), now)
                 ELSE ParseFail

\* the value that starts at i
ParseValue(s, i) ==
    IF CharAt(s, i) = Quote THEN ScanString(s, i + 1, <<>>)
    ELSE IF CharAt(s, i) = "{"
    THEN LET first == SkipWhitespace(s, i + 1)
         IN  IF CharAt(s, first) = "}" THEN Parsed([t |-> "obj", v |-> <<>>], first + 1)
             ELSE ParseMembers(s, first, <<>>)
    ELSE IF CharAt(s, i) = "["
    THEN LET first == SkipWhitespace(s, i + 1)
         IN  IF CharAt(s, first) = "]" THEN Parsed([t |-> "arr", v |-> <<>>], first + 1)
             ELSE ParseElements(s, first, <<>>)
    ELSE IF CharAt(s, i) \in Digits
    THEN Parsed([t |-> "num", v |-> SubSeq(s, i, NumberEnd(s, i))], NumberEnd(s, i) + 1)
    ELSE IF \E w \in Literals : MatchAt(s, i, w)
    THEN LET w == CHOOSE l \in Literals : MatchAt(s, i, l)
         IN  Parsed([t |-> "lit", v |-> w], i + Len(w))
    ELSE ParseFail

\* json.loads(s): one value and nothing but whitespace around it
JsonLoads(s) ==
    LET val == ParseValue(s, SkipWhitespace(s, 1))
    IN  IF val.ok /\ SkipWhitespace(s, val.pos) = Len(s) + 1 THEN val ELSE ParseFail

\* the keys generate_flashcards and _fix_math_formatting look up
KeyDeck == <<"d", "e", "c", "k">>
KeyCards == <<"c", "a", "r", "d", "s">>
KeyFront == <<"f", "r", "o", "n", "t">>
KeyBack == <<"b", "a", "c", "k">>
KeyText == <<"t", "e", "x", "t">>

\* key in data, data[key]
HasKey(obj, key) == \E n \in 1..Len(obj.v) : obj.v[n].k = key
Get(obj, key) == obj.v[CHOOSE n \in 1..Len(obj.v) : obj.v[n].k = key].v

\* the truth value Python gives a parsed value
Truthy(val) ==
    CASE val.t \in {"str", "arr", "obj"} -> val.v # <<>>
      [] val.t = "num" -> val.v # <<"0">>
      [] OTHER -> val.v = <<"t", "r", "u", "e">>

Fixed(val) == [err |-> NoneV, val |-> val]
Failed(err) == [err |-> err, val |-> NoValue]

\* _fix_math_in_text on a field of a card: a falsy value is returned as it
\* is, re.sub rejects a value that is no string
FixMathValue(val) ==
    IF ~Truthy(val) THEN Fixed(val)
    ELSE IF val.t = "str" THEN Fixed([t |-> "str", v |-> FixMathInText(val.v)])
    ELSE Failed("TypeError")

RECURSIVE FixFields(_, _)
\* the three "if key in result" statements of _fix_math_formatting
FixFields(result, keys) ==
    IF keys = <<>> THEN Fixed(result)
    ELSE IF HasKey(result, Head(keys))
    THEN LET field == FixMathValue(Get(result, Head(keys)))
         IN  IF field.err # NoneV THEN field
             ELSE FixFields([t |-> "obj", v |-> Put(result.v, Head(keys), field.val)], Tail(keys))
    ELSE FixFields(result, Tail(keys))

\* _fix_math_formatting: card.copy() exists for a dict and for a list; a list
\* that holds one of the three keys is then indexed by it
FixMathFormatting(card) ==
    IF card.t = "obj" THEN FixFields(card, <<KeyFront, KeyBack, KeyText>>)
    ELSE IF card.t = "arr"
    THEN IF \E n \in 1..Len(card.v) :
                card.v[n].t = "str" /\ card.v[n].v \in {KeyFront, KeyBack, KeyText}
         THEN Failed("TypeError")
         ELSE Fixed(card)
    ELSE Failed("AttributeError")

\* what "for card in data['cards']" iterates over: the items of a list, the
\* characters of a string, the keys of a dict
Iterate(cards) ==
    IF cards.t = "arr" THEN Fixed(cards.v)
    ELSE IF cards.t = "str"
    THEN Fixed([n \in 1..Len(cards.v) |-> [t |-> "str", v |-> <<cards.v[n]>>]])
    ELSE IF cards.t = "obj"
    THEN Fixed([n \in 1..Len(cards.v) |-> [t |-> "str", v |-> cards.v[n].k]])
    ELSE Failed("TypeError")

RECURSIVE FixCards(_, _)
\* [_fix_math_formatting(card) for card in ...]
FixCards(cards, done) ==
    IF cards = <<>> THEN Fixed(done)
    ELSE LET card == FixMathFormatting(Head(cards))
         IN  IF card.err # NoneV THEN card
             ELSE FixCards(Tail(cards), Append(done, card.val))

\* data['cards'] = [_fix_math_formatting(card) for card in data['cards']]
PostProcess(data) ==
    LET cards == Iterate(Get(data, KeyCards))
    IN  IF cards.err # NoneV THEN cards
        ELSE LET fixed == FixCards(cards.val, <<>>)
             IN  IF fixed.err # NoneV THEN fixed
                 ELSE Fixed([t |-> "obj",
                             v |-> Put(data.v, KeyCards, [t |-> "arr", v |-> fixed.val])])

MissingKeysLooksForCardsOnly(data) == ~HasKey(data, KeyCards)
\* 'deck' not in data or 'cards' not in data
MissingKeys(data) == ~HasKey(data, KeyDeck) \/ ~HasKey(data, KeyCards)

\* bound on the members of a response object
MaxMembers == 2
\* bound on the pieces of the prose after the object
MaxPost == 2

RECURSIVE Concat(_, _)
\* the pieces one after the other with sep between them
Concat(pieces, sep) ==
    IF pieces = <<>> THEN <<>>
    ELSE IF Len(pieces) = 1 THEN pieces[1]
    ELSE pieces[1] \o sep \o Concat(Tail(pieces), sep)

\* the text of a string literal, of a member
Str(chars) == <<Quote>> \o chars \o <<Quote>>
Member(key, value) == Str(key) \o <<":", " ">> \o value

\* \(x+1\) as the model writes it, with single backslashes
InlineFormula == <<Backslash, "(", "x", "+", "1", Backslash, ")">>

\* the members a response object is put together from
DeckD == Member(KeyDeck, Str(<<"D">>))
DeckFormula == Member(KeyDeck, Str(InlineFormula))
CardsEmpty == Member(KeyCards, <<"[", "]">>)
CardsFrontFormula ==
    Member(KeyCards, <<"[", "{">> \o Member(KeyFront, Str(InlineFormula)) \o <<"}", "]">>)
Members ==
    {DeckD, DeckFormula, CardsEmpty, CardsFrontFormula,
     Member(KeyCards, <<"[", "{">> \o Member(KeyBack, Str(<<"$", "x", "$">>)) \o <<"}", "]">>),
     Member(KeyCards, <<"[", "{">> \o Member(KeyText, <<"1">>) \o <<"}", "]">>),
     Member(KeyCards, <<"1">>),
     Member(<<"x">>, Str(<<"}">>)),
     Member(<<"x">>, Str(<<"{">>)),
     Member(<<"x">>, Str(Fence))}

ObjectText(members) == <<"{">> \o Concat(members, <<",", " ">>) \o <<"}">>

\* the response objects of up to MaxMembers members
Objects == {ObjectText(ms) : ms \in SeqsUpTo(Members, MaxMembers)}

\* a few bodies more: a complete object, an object cut short, an object
\* with a trailing comma, no object
DeckAndCards == ObjectText(<<DeckD, CardsEmpty>>)
FewBodies ==
    {DeckAndCards,
     ObjectText(<<Member(<<"x">>, Str(<<"}">>))>>),
     ObjectText(<<Member(<<"x">>, Str(Fence))>>),
     SubSeq(DeckAndCards, 1, Len(DeckAndCards) - 1),
     SubSeq(DeckAndCards, 1, Len(DeckAndCards) - 1) \o <<",", "}">>,
     <<"x">>}

\* prose before and after the object
HereYouGo == <<"H", "e", "r", "e", " ", "y", "o", "u", " ", "g", "o", ":", " ">>
HopeThatHelps == <<" ", "H", "o", "p", "e", " ", "t", "h", "a", "t", " ", "h", "e", "l", "p", "s", "!">>
Pres == {<<>>, HereYouGo}
FewPosts == {<<>>, HopeThatHelps}
PostPieces == {<<"x">>, <<" ">>, <<"{">>, <<"}">>, Fence}
Posts == {Concat(ps, <<>>) : ps \in SeqsUpTo(PostPieces, MaxPost)}

\* how the response is fenced: not at all, or an opening line of a fence
\* and an optional tag, and a closing fence on a line of its own or right
\* after the payload
NoWrap == [fenced |-> FALSE, tag |-> <<>>, ownLine |-> FALSE]
Wraps == {NoWrap} \cup [fenced : {TRUE}, tag : {<<>>, <<"j", "s", "o", "n">>}, ownLine : BOOLEAN]

\* response.text is pre, body, post, fenced as wrap says
Shapes ==
    [pre : Pres, body : Objects, post : FewPosts, wrap : Wraps]
        \cup [pre : Pres, body : FewBodies, post : Posts, wrap : Wraps]

Inner(shape) == shape.pre \o shape.body \o shape.post

ResponseText(shape) ==
    IF ~shape.wrap.fenced THEN Inner(shape)
    ELSE Fence \o shape.wrap.tag \o <<"\n">> \o Inner(shape)
             \o (IF shape.wrap.ownLine THEN <<"\n">> ELSE <<>>) \o Fence

OnDecodeFailureAskAgain == "response"
\* where control goes when the extraction, the parsing or the required-key
\* test fails: the ValueError leaves generate_flashcards
OnDecodeFailure == "raised"

\* result = call_gemini(...): the text call_gemini returns for response.text
DecodeReceive ==
    /\ dPc = "response"
    /\ dCalls' = dCalls + 1
    /\ dResult' = CleanResponse(dResult)
    /\ dPc' = "unwrap"
    /\ UNCHANGED <<dJson, dData, dErr>>
    /\ UNCHANGED <<eHistory, fHistory, dShape>>
    /\ UNCHANGED <<gVars, aVars, tVars, mVars, sVars>>

\* result = result.strip() and the fenced block
DecodeUnwrap ==
    /\ dPc = "unwrap"
    /\ dResult' = Unwrap(dResult)
    /\ dPc' = "extract"
    /\ UNCHANGED <<dJson, dData, dErr>>
    /\ UNCHANGED <<eHistory, fHistory, dShape, dCalls>>
    /\ UNCHANGED <<gVars, aVars, tVars, mVars, sVars>>

\* the opening brace and its matching closing brace
DecodeExtract ==
    /\ dPc = "extract"
    /\ IF StartIdx(dResult) = 0
       THEN /\ dErr' = "ValueError: No JSON object found in response"
            /\ dPc' = OnDecodeFailure
            /\ UNCHANGED dJson
       ELSE /\ dJson' = JsonStr(dResult)
            /\ dPc' = "repair"
            /\ UNCHANGED dErr
    /\ UNCHANGED <<dResult, dData>>
    /\ UNCHANGED <<eHistory, fHistory, dShape, dCalls>>
    /\ UNCHANGED <<gVars, aVars, tVars, mVars, sVars>>

\* json_str = _fix_json_escapes(json_str)
DecodeRepair ==
    /\ dPc = "repair"
    /\ dJson' = FixJsonEscapes(dJson)
    /\ dPc' = "parse"
    /\ UNCHANGED <<dResult, dData, dErr>>
    /\ UNCHANGED <<eHistory, fHistory, dShape, dCalls>>
    /\ UNCHANGED <<gVars, aVars, tVars, mVars, sVars>>

\* data = json.loads(json_str), and the except clause
DecodeParse ==
    /\ dPc = "parse"
    /\ IF JsonLoads(dJson).ok
       THEN /\ dData' = JsonLoads(dJson).val
            /\ dPc' = "verify"
            /\ UNCHANGED dErr
       ELSE /\ dErr' = "ValueError: LLM did not return valid JSON"
            /\ dPc' = OnDecodeFailure
            /\ UNCHANGED dData
    /\ UNCHANGED <<dResult, dJson>>
    /\ UNCHANGED <<eHistory, fHistory, dShape, dCalls>>
    /\ UNCHANGED <<gVars, aVars, tVars, mVars, sVars>>

\* the required keys
DecodeVerify ==
    /\ dPc = "verify"
    /\ IF MissingKeys(dData)
       THEN /\ dErr' = "ValueError: Response missing 'deck' or 'cards' field"
            /\ dPc' = OnDecodeFailure
       ELSE /\ dPc' = "postprocess"
            /\ UNCHANGED dErr
    /\ UNCHANGED <<dResult, dJson, dData>>
    /\ UNCHANGED <<eHistory, fHistory, dShape, dCalls>>
    /\ UNCHANGED <<gVars, aVars, tVars, mVars, sVars>>

\* the math post-processing of the cards, and return data
DecodeReturn ==
    /\ dPc = "postprocess"
    /\ IF PostProcess(dData).err # NoneV
       THEN /\ dErr' = PostProcess(dData).err
            /\ dPc' = "raised"
            /\ UNCHANGED dData
       ELSE /\ dData' = PostProcess(dData).val
            /\ dPc' = "returned"
            /\ UNCHANGED dErr
    /\ UNCHANGED <<dResult, dJson>>
    /\ UNCHANGED <<eHistory, fHistory, dShape, dCalls>>
    /\ UNCHANGED <<gVars, aVars, tVars, mVars, sVars>>

DecodeIdle ==
    /\ dPc = "parked" /\ dShape = [pre |-> <<>>, body |-> <<>>, post |-> <<>>, wrap |-> NoWrap]
    /\ dResult = <<>> /\ dJson = <<>> /\ dData = NoValue /\ dErr = NoneV /\ dCalls = 0

DecodeStart ==
    /\ dPc = "response"
    /\ dShape \in Shapes
    /\ dResult = ResponseText(dShape)
    /\ dJson = <<>> /\ dData = NoValue /\ dErr = NoneV /\ dCalls = 0

(***************************************************************************)
(* solve_mcq: one exam file through pdf_to_images, solve_exam and          *)
(* compile_latex                                                           *)
(***************************************************************************)

\* bound on the pages pdftoppm writes
MaxPages == 2

\* what one run of an external tool does: whether it can be started, its
\* exit code, and what it leaves in the output directory
PdftoppmRuns == [started : BOOLEAN, returncode : {0, 1}, pages : 0..MaxPages]
PdflatexRuns == [started : BOOLEAN, returncode : {0, 1}, writesPdf : BOOLEAN]

\* range(2): "Run twice for references"
LatexPasses == 2

RenderEnvs ==
    [pdftoppm : PdftoppmRuns, pdflatex : [1..LatexPasses -> PdflatexRuns],
     solved : BOOLEAN]

\* pdf_to_images: the number of images returned, or how the call ends
PdfToImages(run) ==
    IF ~run.started THEN [kind |-> "raise", images |-> 0]
    ELSE IF run.returncode # 0 THEN [kind |-> "exit", images |-> 0]
    ELSE [kind |-> "return", images |-> run.pages]

\* compile_latex: both runs, their results discarded; the PDF is there
\* afterwards when a run wrote it
CompileLatex(runs) ==
    IF \E n \in 1..LatexPasses : ~runs[n].started
    THEN [kind |-> "raise", exists |-> FALSE]
    ELSE [kind |-> "return", exists |-> \E n \in 1..LatexPasses : runs[n].writesPdf]

\* "Step 1: Convert PDF to images"
RenderRasterize ==
    /\ rPc = "rasterize"
    /\ LET out == PdfToImages(rEnv.pdftoppm)
       IN  /\ rImages' = out.images
           /\ rPc' = CASE out.kind = "return" -> "solve"
                       [] out.kind = "exit" -> "exit"
                       [] out.kind = "raise" -> "raised"
           /\ rErr' = CASE out.kind = "return" -> rErr
                        [] out.kind = "exit" -> "SystemExit"
                        [] out.kind = "raise" -> "FileNotFoundError"
    /\ UNCHANGED <<rEnv, rPdfExists>>
    /\ UNCHANGED <<gVars, aVars, tVars, mVars, pVars, uVars, iVars, kVars, nVars>>

\* "Step 2: Send to Gemini for solving"
RenderSolve ==
    /\ rPc = "solve"
    /\ IF rEnv.solved
       THEN rPc' = "compile" /\ UNCHANGED rErr
       ELSE rPc' = "raised" /\ rErr' = "ValueError"
    /\ UNCHANGED <<rEnv, rImages, rPdfExists>>
    /\ UNCHANGED <<gVars, aVars, tVars, mVars, pVars, uVars, iVars, kVars, nVars>>

\* "Step 4: Compile to PDF"
RenderCompile ==
    /\ rPc = "compile"
    /\ LET out == CompileLatex(rEnv.pdflatex)
       IN  /\ rPdfExists' = out.exists
           /\ IF out.kind = "return"
              THEN rPc' = "copy" /\ UNCHANGED rErr
              ELSE rPc' = "raised" /\ rErr' = "FileNotFoundError"
    /\ UNCHANGED <<rEnv, rImages>>
    /\ UNCHANGED <<gVars, aVars, tVars, mVars, pVars, uVars, iVars, kVars, nVars>>

\* "Step 5: Copy output": Saved PDF, or PDF compilation failed
RenderCopy ==
    /\ rPc = "copy"
    /\ rPc' = IF rPdfExists THEN "saved" ELSE "failed"
    /\ UNCHANGED <<rEnv, rImages, rPdfExists, rErr>>
    /\ UNCHANGED <<gVars, aVars, tVars, mVars, pVars, uVars, iVars, kVars, nVars>>

RenderIdle ==
    /\ rPc = "parked"
    /\ rEnv = [pdftoppm |-> [started |-> FALSE, returncode |-> 0, pages |-> 0],
               pdflatex |-> [n \in 1..LatexPasses |->
                                [started |-> FALSE, returncode |-> 0, writesPdf |-> FALSE]],
               solved |-> FALSE]
    /\ rImages = 0 /\ rPdfExists = FALSE /\ rErr = NoneV

RenderStart ==
    /\ rPc = "rasterize"
    /\ rEnv \in RenderEnvs
    /\ rImages = 0 /\ rPdfExists = FALSE /\ rErr = NoneV

(***************************************************************************)
(* transcribe_with_gemini: the upload and the wait for the file to become  *)
(* ACTIVE                                                                  *)
(***************************************************************************)

\* max_wait = 28800  # 8 hours
MaxWait == 28800
\* wait_interval = 2
WaitInterval == 2

\* file_info.state.name as a poll finds it
FileStates == {"PROCESSING", "ACTIVE", "FAILED"}

\* what one client.files.get can produce: a state, or an exception
PollOutcomes == FileStates \cup {"exception"}

\* while waited < max_wait
PollContinues(waited) == waited < MaxWait

PollVerdictIgnoringFailed(state) ==
    IF state = "ACTIVE" THEN "break" ELSE "sleep"
\* the two tests of the loop body
PollVerdict(state) ==
    IF state = "ACTIVE" THEN "break"
    ELSE IF state = "FAILED" THEN "raise"
    ELSE "sleep"

\* uploaded_file = client.files.upload(file=temp_path)
UploadFile ==
    /\ uPc = "upload"
    /\ \E ok \in BOOLEAN :
        IF ok THEN uPc' = "poll" /\ UNCHANGED uErr
        ELSE uPc' = "raised" /\ uErr' = "TransportError"
    /\ UNCHANGED <<uWaited, uPolls, uSeen, uGenerated>>
    /\ UNCHANGED <<gVars, aVars, tVars, mVars, pVars, rVars, iVars, kVars, nVars>>

\* one iteration of the while loop
UploadPoll ==
    /\ uPc = "poll"
    /\ PollContinues(uWaited)
    /\ \E o \in PollOutcomes :
        /\ uPolls' = uPolls + 1
        /\ uSeen' = o
        /\ IF o = "exception"
           THEN uPc' = "raised" /\ uErr' = "TransportError" /\ UNCHANGED uWaited
           ELSE CASE PollVerdict(o) = "break" ->
                       uPc' = "generate" /\ UNCHANGED <<uErr, uWaited>>
                  [] PollVerdict(o) = "raise" ->
                       /\ uPc' = "raised"
                       /\ uErr' = "RuntimeError: File processing failed"
                       /\ UNCHANGED uWaited
                  [] PollVerdict(o) = "sleep" ->
                       /\ uWaited' = uWaited + WaitInterval
                       /\ UNCHANGED <<uPc, uErr>>
    /\ UNCHANGED uGenerated
    /\ UNCHANGED <<gVars, aVars, tVars, mVars, pVars, rVars, iVars, kVars, nVars>>

\* the else clause of the while loop
UploadTimeout ==
    /\ uPc = "poll"
    /\ ~PollContinues(uWaited)
    /\ uPc' = "raised"
    /\ uErr' = "RuntimeError: File did not become ACTIVE"
    /\ UNCHANGED <<uWaited, uPolls, uSeen, uGenerated>>
    /\ UNCHANGED <<gVars, aVars, tVars, mVars, pVars, rVars, iVars, kVars, nVars>>

\* response = client.models.generate_content(...)
UploadGenerate ==
    /\ uPc = "generate"
    /\ uGenerated' = uGenerated + 1
    /\ \E ok \in BOOLEAN :
        IF ok THEN uPc' = "returned" /\ UNCHANGED uErr
        ELSE uPc' = "raised" /\ uErr' = "TransportError"
    /\ UNCHANGED <<uWaited, uPolls, uSeen>>
    /\ UNCHANGED <<gVars, aVars, tVars, mVars, pVars, rVars, iVars, kVars, nVars>>

UploadIdle ==
    /\ uPc = "parked" /\ uWaited = 0 /\ uPolls = 0 /\ uSeen = NoneV
    /\ uGenerated = 0 /\ uErr = NoneV

UploadStart ==
    /\ uPc = "upload" /\ uWaited = 0 /\ uPolls = 0 /\ uSeen = NoneV
    /\ uGenerated = 0 /\ uErr = NoneV

(***************************************************************************)
(* transcribe: identify_speakers_and_fix                                   *)
(***************************************************************************)

\* bound on the length of a transcript and of a model result
MaxText == 2

\* transcripts as the backends produce them, and texts as call_gemini
\* returns them: "[" opens a speaker label, a and x are any other character
Transcripts == SeqsUpTo({"[", "a"}, MaxText)
FixTexts == SeqsUpTo({"[", "x"}, MaxText)

\* what call_gemini does: it returns a text, or an exception leaves it
RemoteEndings ==
    [kind : {"return"}, text : FixTexts] \cup {[kind |-> "raise", text |-> <<>>]}

\* the arguments and the environment of one call
FixCalls ==
    [transcript : Transcripts, hasKey : BOOLEAN, promptExists : BOOLEAN,
     remote : RemoteEndings]

AcceptsAnyText(result) == result # <<>>
\* if result and "[" in result
Accepts(result) == result # <<>> /\ \E n \in 1..Len(result) : result[n] = "["

\* identify_speakers_and_fix(transcript, filename, config)
IdentifySpeakersAndFix(call) ==
    IF ~call.hasKey THEN [kind |-> "return", text |-> call.transcript]
    ELSE IF ~call.promptExists THEN [kind |-> "exit", text |-> <<>>]
    ELSE IF call.remote.kind = "raise" THEN [kind |-> "return", text |-> call.transcript]
    ELSE IF Accepts(call.remote.text) THEN [kind |-> "return", text |-> call.remote.text]
    ELSE [kind |-> "return", text |-> call.transcript]

\* "Step 2: Identify speakers and fix errors with LLM"
FixCall ==
    /\ iPc = "call"
    /\ LET out == IdentifySpeakersAndFix(iCall)
       IN  /\ iPc' = IF out.kind = "return" THEN "returned" ELSE "exit"
           /\ iResult' = out.text
    /\ UNCHANGED iCall
    /\ UNCHANGED <<gVars, aVars, tVars, mVars, pVars, rVars, uVars, kVars, nVars>>

FixIdle ==
    /\ iPc = "parked" /\ iResult = <<>>
    /\ iCall = [transcript |-> <<>>, hasKey |-> FALSE, promptExists |-> FALSE,
                remote |-> [kind |-> "raise", text |-> <<>>]]

FixStart ==
    /\ iPc = "call" /\ iResult = <<>>
    /\ iCall \in FixCalls

(***************************************************************************)
(* generate_flashcards: process_file run again and again on one file, and  *)
(* the file's tags                                                         *)
(***************************************************************************)

\* bound on the number of runs on the file
MaxRuns == 3

\* ANKI_TAG = 'anki-flashcards'
AnkiTag == "anki-flashcards"

\* the tag lists the file can start with: the user's own tags, and the tag
\* of an earlier run
TagLists == {<<>>, <<"todo">>, <<AnkiTag>>, <<"todo", AnkiTag>>}

\* get_file_tags: the tags in user.xdg.tags, or [] when getxattr raises OSError
GetFileTags(stored, readable) == IF readable THEN stored ELSE <<>>

\* set_file_tags: what user.xdg.tags holds afterwards; setxattr may raise OSError
SetFileTags(stored, tags, writable) == IF writable THEN tags ELSE stored

\* mark_file_as_processed: what user.xdg.tags holds afterwards
MarkFileAsProcessed(stored, readable, writable) ==
    LET tags == GetFileTags(stored, readable)
    IN  IF \A n \in 1..Len(tags) : tags[n] # AnkiTag
        THEN SetFileTags(stored, Append(tags, AnkiTag), writable)
        ELSE stored

ShouldTagAlways(added) == TRUE
\* if added > 0
ShouldTag(added) == added > 0

\* one run of process_file on the file
TagRun ==
    /\ kPc = "run"
    /\ Len(kLog) < MaxRuns
    /\ \E script \in ItemScripts, pdf \in BOOLEAN, readable \in BOOLEAN, writable \in BOOLEAN :
        LET out == ProcessFile([pdf |-> pdf], script, TRUE, TRUE)
        IN  /\ kLog' = Append(kLog, [kind |-> out.kind, ids |-> script.ids])
            /\ kTags' = IF out.kind = "return" /\ ShouldTag(out.added)
                        THEN MarkFileAsProcessed(kTags, readable, writable)
                        ELSE kTags
    /\ UNCHANGED kPc
    /\ UNCHANGED <<gVars, aVars, tVars, mVars, pVars, rVars, uVars, iVars, nVars>>

TagIdle == kPc = "parked" /\ kTags = <<>> /\ kLog = <<>>

TagStart == kPc = "run" /\ kTags \in TagLists /\ kLog = <<>>

(***************************************************************************)
(* annotate_code: main run again and again on one file                     *)
(*                                                                         *)
(* The content of a file is the sequence of what went into it: the         *)
(* original code, then one entry for every annotation made on top of it.   *)
(* NoneV is a file that does not exist.                                    *)
(***************************************************************************)

\* bound on the number of runs on the file
MaxAnnotations == 3

\* the models a run can be answered by
Annotators == {"m1", "m2"}

\* what call_gemini does in a run: an exception leaves it, or a model answers
AnnotateEndings == {"raise"} \cup Annotators

\* the code file as written by the user
Original == <<"code">>

\* result = annotate_code(source): the source as the model annotated it
AnnotateCode(content, model) == Append(content, model)

\* "Refresh mode: if .bak exists, use it as source"
SourcePath(backupExists) == IF backupExists THEN "bak" ELSE "file"

ShouldBackupWheneverAsked(backup, backupExists, outputIsFile) == backup /\ outputIsFile
\* if args.backup and not backup_path.exists() and output_path == file_path
ShouldBackup(backup, backupExists, outputIsFile) ==
    backup /\ ~backupExists /\ outputIsFile

\* one run of main with the flags --backup and --output
AnnotateRun ==
    /\ nPc = "run"
    /\ Len(nLog) < MaxAnnotations
    /\ \E backup \in BOOLEAN, outputIsFile \in BOOLEAN, ending \in AnnotateEndings :
        LET backupExists == nBak # NoneV
            source_path == SourcePath(backupExists)
            source == IF source_path = "bak" THEN nBak ELSE nFile
            entry == [read |-> source_path, content |-> source, backup |-> backup,
                      outputIsFile |-> outputIsFile, ending |-> "exit"]
        IN  IF source = NoneV
            THEN /\ nLog' = Append(nLog, entry)
                 /\ UNCHANGED <<nFile, nBak, nOther>>
            ELSE IF ending = "raise"
            THEN /\ nLog' = Append(nLog, [entry EXCEPT !.ending = "raised"])
                 /\ UNCHANGED <<nFile, nBak, nOther>>
            ELSE LET result == AnnotateCode(source, ending)
                     renamed == ShouldBackup(backup, backupExists, outputIsFile)
                 IN  /\ nLog' = Append(nLog, [entry EXCEPT !.ending = "saved"])
                     /\ nBak' = IF renamed THEN nFile ELSE nBak
                     /\ nFile' = IF outputIsFile THEN result ELSE nFile
                     /\ nOther' = IF outputIsFile THEN nOther ELSE result
    /\ UNCHANGED nPc
    /\ UNCHANGED <<gVars, aVars, tVars, mVars, pVars, rVars, uVars, iVars, kVars>>

AnnotateIdle ==
    nPc = "parked" /\ nFile = NoneV /\ nBak = NoneV /\ nOther = NoneV /\ nLog = <<>>

\* the file as the user wrote it, with or without a backup of an earlier
\* run next to it
AnnotateStart ==
    /\ nPc = "run" /\ nOther = NoneV /\ nLog = <<>>
    /\ \/ nFile = Original /\ nBak = NoneV
       \/ nFile = AnnotateCode(Original, "m1") /\ nBak = Original
       \/ nFile = NoneV /\ nBak = Original
       \/ nFile = NoneV /\ nBak = NoneV

(***************************************************************************)
(* Claims                                                                  *)
(***************************************************************************)

gEnded == gPc \in {"returned", "raised"}

\* every outcome so far is a response that is a content rejection
AllRecitation(os) ==
    \A i \in 1..Len(os) : os[i].kind = "response" /\ IsRecitationError(os[i])

IsPrefix(s, t) == Len(s) <= Len(t) /\ SubSeq(t, 1, Len(s)) = s

Count(s, x) == Cardinality({i \in 1..Len(s) : s[i] = x})

\* C1: called with the default temperature 1.0 and answered by content
\* rejections only, call_gemini issues its requests at 1.0, 1.5 and 2.0 in
\* that order, never a fourth, never returns, and ends by raising the
\* ValueError after exactly these 3 requests.
C1_ThreeAttemptsThenError ==
    (gHasKey /\ gTemperature = TempDefault /\ AllRecitation(gOutcomes)) =>
        /\ IsPrefix(gTemps, <<TempDefault, Temp15, Temp20>>)
        /\ gPc # "returned"
        /\ gPc = "raised" => (gTemps = <<TempDefault, Temp15, Temp20>> /\ gErr = "ValueError")
        /\ gPc = "final" => Len(gTemps) = 3

C1_Witness ==
    /\ gPc = "raised" /\ gErr = "ValueError" /\ gTemperature = TempDefault
    /\ Len(gOutcomes) = 3 /\ AllRecitation(gOutcomes)
    /\ gTemps = <<TempDefault, Temp15, Temp20>>

\* C2: in every call the temperatures of successive attempts are strictly
\* increasing, and each escalation value (1.5, 2.0) is attempted at most once.
C2_StrictlyIncreasingTemps ==
    /\ \A i \in 1..(Len(gTemps) - 1) : gTemps[i] < gTemps[i + 1]
    /\ Count(gTemps, Temp15) <= 1
    /\ Count(gTemps, Temp20) <= 1

aIsSuccess(o) == o.kind = "response" /\ o.wellFormed /\ o.error.isNone

\* C4: with max_retries = 3, fed [transport error, transport error, success],
\* anki_invoke waits exactly twice, 2 s and then 4 s, and returns the result of
\* the successful response.
C4_TwoIncreasingWaitsThenResult ==
    (/\ aMax = DefaultMaxRetries
     /\ Len(aOutcomes) >= 2
     /\ aOutcomes[1].kind = "URLError"
     /\ aOutcomes[2].kind = "URLError") =>
        /\ Len(aOutcomes) = 2 => (aPc = "loop" /\ aWaits = <<2, 4>>)
        /\ (Len(aOutcomes) = 3 /\ aIsSuccess(aOutcomes[3])) =>
              /\ aPc = "returned"
              /\ aWaits = <<2, 4>>
              /\ aWaits[1] < aWaits[2]
              /\ aResult = aOutcomes[3].result

C4_Witness ==
    /\ aMax = DefaultMaxRetries /\ aPc = "returned"
    /\ Len(aOutcomes) = 3
    /\ aOutcomes[1].kind = "URLError" /\ aOutcomes[2].kind = "URLError"
    /\ aIsSuccess(aOutcomes[3]) /\ aResult = "r2"
    /\ aWaits = <<2, 4>>

\* C5: for every max_retries >= 0 and every sequence of request outcomes,
\* anki_invoke makes at most max_retries requests, and ends either returning
\* the result of a response whose error field is null or raising an error; no
\* value is returned when no request succeeded.
C5_ReturnsOnlySuccessOrRaises ==
    /\ Len(aOutcomes) <= aMax
    /\ aPc \in {"parked", "loop", "returned", "raised"}
    /\ aPc = "returned" =>
          /\ Len(aOutcomes) >= 1
          /\ aIsSuccess(Last(aOutcomes))
          /\ aResult = Last(aOutcomes).result
          /\ aErr = NoneV
    /\ aPc # "returned" => aResult = NoneV
    /\ aPc = "raised" =>
          /\ aErr # NoneV
          /\ (Len(aOutcomes) = 0 \/ ~aIsSuccess(Last(aOutcomes)))
    /\ aPc = "loop" =>
          /\ \A i \in 1..Len(aOutcomes) : ~aIsSuccess(aOutcomes[i])
          /\ ENABLED (AnkiAttempt \/ AnkiExhausted)

C5_Witness ==
    /\ aPc = "raised" /\ aMax = 2 /\ Len(aOutcomes) = 2
    /\ aOutcomes[1].kind = "URLError"
    /\ aOutcomes[2].kind = "response" /\ IsRetryable(aOutcomes[2].error)
    /\ aResult = NoneV

tSelected == tPc = "transcribe"

\* C7: in auto mode the decision follows the probe: a completed probe with exit
\* code 0 and no process line (empty or whitespace-only output) selects Local;
\* one with at least one process line selects Remote; a failed probe (nonzero
\* exit code, tool absent, any exception, more than 5 seconds) selects Remote.
C7_AutoFollowsProbe ==
    (tSelected /\ tFallback = "auto") =>
        LET ran == tEnv.tool = "present" /\ tEnv.seconds <= ProbeTimeout
            ok == ran /\ tEnv.returncode = 0
        IN  /\ (ok /\ Len(ProcessLines(tEnv.stdout)) = 0) => tUseGpu
            /\ (ok /\ Len(ProcessLines(tEnv.stdout)) >= 1) => ~tUseGpu
            /\ ~ok => ~tUseGpu
            /\ tProbes = 1

C7_Witness ==
    /\ tSelected /\ tFallback = "auto" /\ tUseGpu
    /\ tEnv.stdout = <<" ", "\n">>

\* C8: when the forced mode is 'gpu' or 'gemini' the decision is the forced
\* value (Local resp. Remote) whatever the state of the local resource, and the
\* probe is never run.
C8_ForcedModeIgnoresProbe ==
    /\ tFallback \in {"gpu", "gemini"} => tProbes = 0
    /\ (tSelected /\ tFallback = "gpu") => tUseGpu
    /\ (tSelected /\ tFallback = "gemini") => ~tUseGpu

C8_Witness ==
    /\ tSelected /\ tFallback = "gemini" /\ ~tUseGpu /\ tProbes = 0
    /\ IsGpuAvailable(tEnv)

C10_EveryErrorBecomesFailure ==
    \A k \in 1..Len(mLog) :
        mLog[k].kind # "return" =>
            /\ mPc # "exit"
            /\ k <= Len(mResults)
            /\ mResults[k].hasError

\* the items of the log that returned, that raised
Returned == {k \in 1..Len(mLog) : mLog[k].kind = "return"}
Raised == {k \in 1..Len(mLog) : mLog[k].kind = "raise"}

RECURSIVE CountIds(_, _, _)
\* the number of note ids equal to v over the items in ks of the log
CountIds(log, ks, v) ==
    IF ks = {} THEN 0
    ELSE LET k == CHOOSE x \in ks : TRUE
         IN  Count(log[k].ids, v) + CountIds(log, ks \ {k}, v)

\* C11: the end-of-run summary keeps a three-way split: added is the number
\* of non-null note ids returned for the successful items, skipped the number
\* of null (duplicate) ids returned for them, errors the number of items
\* whose processing raised; a null id never counts as an error, and for each
\* successful item added + skipped is the number of cards submitted.
C11_SummaryThreeWaySplit ==
    /\ \A k \in 1..Len(mResults) :
          ~mResults[k].hasError =>
              /\ mResults[k].added = Count(mLog[k].ids, "id")
              /\ mResults[k].skipped = Count(mLog[k].ids, "null")
              /\ mResults[k].added + mResults[k].skipped = Len(mLog[k].ids)
    /\ mPc = "done" =>
          /\ mSummary.added = CountIds(mLog, Returned, "id")
          /\ mSummary.skipped = CountIds(mLog, Returned, "null")
          /\ mSummary.errors = Cardinality(Raised)

C11_Witness ==
    /\ mPc = "done" /\ Len(mLog) = 3
    /\ mLog[1].kind = "return" /\ mLog[1].ids = <<"id">>
    /\ mLog[2].kind = "return" /\ mLog[2].ids = <<"null">>
    /\ mLog[3].kind = "raise"
    /\ mSummary = [added |-> 1, skipped |-> 1, errors |-> 1]

\* the characters that make a two-character JSON escape
SimpleEscapes == {"\"", "\\", "/", "b", "f", "n", "r", "t"}

RECURSIVE EscapesValidFrom(_, _)
\* reading the text from position i, every backslash starts a valid JSON
\* escape: a two-character one, or u and exactly 4 hex digits
EscapesValidFrom(x, i) ==
    IF i > Len(x) THEN TRUE
    ELSE IF x[i] # Backslash THEN EscapesValidFrom(x, i + 1)
    ELSE IF i + 1 > Len(x) THEN FALSE
    ELSE IF x[i + 1] \in SimpleEscapes THEN EscapesValidFrom(x, i + 2)
    ELSE IF x[i + 1] = "u"
    THEN /\ i + 5 <= Len(x)
         /\ \A k \in (i + 2)..(i + 5) : x[k] \in HexDigits
         /\ EscapesValidFrom(x, i + 6)
    ELSE FALSE

RECURSIVE EscapesKnownFrom(_, _)
\* reading the text from position i, every backslash is followed by a
\* character of the valid set or ends the text; the 4 characters after a
\* backslash-u are skipped unread
EscapesKnownFrom(x, i) ==
    IF i > Len(x) THEN TRUE
    ELSE IF x[i] # Backslash THEN EscapesKnownFrom(x, i + 1)
    ELSE IF i + 1 > Len(x) THEN TRUE
    ELSE IF x[i + 1] = "u" THEN EscapesKnownFrom(x, i + 6)
    ELSE x[i + 1] \in SimpleEscapes /\ EscapesKnownFrom(x, i + 2)

\* C14: _fix_json_escapes is idempotent: for every text, one with a trailing
\* lone backslash or with backslash-u followed by fewer than 4 characters
\* included, repairing the repaired text changes nothing.
C14_RepairIdempotent ==
    Len(eHistory) = 3 => eHistory[3] = eHistory[2]

C14_Witness ==
    /\ Len(eHistory) = 3
    /\ eHistory[1] = <<Backslash, "u", Backslash, "(", Backslash>>
    /\ eHistory[2] = <<Backslash, "u", Backslash, Backslash, "(", Backslash>>

\* C15: _fix_json_escapes leaves a text alone in which every backslash starts
\* a valid escape (a two-character escape or backslash-u and 4 hex digits).
C15_ValidEscapesPreserved ==
    (Len(eHistory) >= 2 /\ EscapesValidFrom(eHistory[1], 1)) => eHistory[2] = eHistory[1]

C15_Witness ==
    /\ Len(eHistory) >= 2
    /\ eHistory[1] = <<Backslash, "u", "0", "0", "0", "0">>
    /\ EscapesValidFrom(eHistory[1], 1)

\* C16 as stated: in the output of _fix_json_escapes every backslash is
\* followed by one of the two-character escape characters or by u and
\* exactly 4 hex digits.
C16_OutputOnlyValidEscapes ==
    Len(eHistory) >= 2 => EscapesValidFrom(eHistory[2], 1)

\* C16 amended: in the output of _fix_json_escapes every backslash is
\* followed by a character of the valid set (u included), except a backslash
\* that is the last character of the output and the backslashes among the 4
\* characters after a backslash-u, which are copied unread: they need not be
\* hex digits and fewer than 4 may follow.
C16_OutputOnlyKnownEscapes ==
    Len(eHistory) >= 2 => EscapesKnownFrom(eHistory[2], 1)

C16_Witness ==
    /\ Len(eHistory) >= 2
    /\ eHistory[1] = <<Backslash, "(", Backslash, "u", "(", Backslash>>
    /\ eHistory[2] = <<Backslash, Backslash, "(", Backslash, "u", "(", Backslash>>

\* the extraction has run: it found an object text or raised
Extracted == dPc = "repair"
ExtractFailed == dPc = "raised" /\ dErr = "ValueError: No JSON object found in response"

\* the text is a JSON object with nothing around it
IsJsonObject(text) ==
    /\ JsonLoads(text).ok /\ JsonLoads(text).val.t = "obj"
    /\ text[1] = "{" /\ Last(text) = "}"

\* the response is an object followed by prose, fenced in nothing
ObjectThenProse ==
    /\ ~dShape.wrap.fenced /\ dShape.pre = <<>>
    /\ IsJsonObject(dShape.body)

RECURSIVE BraceInString(_, _, _)
\* reading the JSON text from i, a brace stands inside a string literal
BraceInString(text, i, inString) ==
    IF i > Len(text) THEN FALSE
    ELSE IF ~inString THEN BraceInString(text, i + 1, text[i] = Quote)
    ELSE IF text[i] = Backslash THEN BraceInString(text, i + 2, TRUE)
    ELSE IF text[i] = Quote THEN BraceInString(text, i + 1, FALSE)
    ELSE text[i] \in {"{", "}"} \/ BraceInString(text, i + 1, TRUE)

\* two runs of three backticks that do not overlap
TwoFences(text) ==
    \E i, j \in 1..Len(text) :
        j >= i + 3 /\ MatchAt(text, i, Fence) /\ MatchAt(text, j, Fence)

\* C12 as stated: for every text that is a valid JSON object followed by
\* trailing prose, the extraction yields exactly the text of the object,
\* whatever the prose holds.
C12_ObjectExtractedWhateverFollows ==
    ObjectThenProse =>
        /\ ~ExtractFailed
        /\ Extracted => dJson = dShape.body

\* C12 amended: for every text that is a valid JSON object with no brace
\* inside its string literals, followed by trailing prose, and that holds no
\* two separate runs of three backticks, the extraction yields exactly the
\* text of the object, whatever else the prose holds, braces included.
C12_ObjectExtractedUnlessBracesOrFences ==
    (/\ ObjectThenProse
     /\ ~BraceInString(dShape.body, 1, FALSE)
     /\ ~TwoFences(Inner(dShape))) =>
        /\ ~ExtractFailed
        /\ Extracted => dJson = dShape.body

C12_Witness ==
    /\ Extracted /\ ObjectThenProse
    /\ dShape.body = DeckAndCards
    /\ dShape.post = <<"}">> \o Fence
    /\ dJson = DeckAndCards

\* what the extraction makes of a response text: whether it finds an object
\* text, and which
ExtractionOf(text) ==
    LET result == Unwrap(CleanResponse(text))
    IN  IF StartIdx(result) = 0 THEN [found |-> FALSE, json |-> <<>>]
        ELSE [found |-> TRUE, json |-> JsonStr(result)]

\* the same for the response being decoded, once the extraction has run
ExtractionNow == [found |-> Extracted, json |-> IF Extracted THEN dJson ELSE <<>>]

\* C13 as stated: for every text wrapped in a fenced block (an opening line
\* of three backticks and an optional language tag, the payload, three
\* backticks after it), the extraction returns what it returns for the
\* payload alone.
C13_FencedSameAsInner ==
    (dShape.wrap.fenced /\ (Extracted \/ ExtractFailed)) =>
        ExtractionNow = ExtractionOf(Inner(dShape))

\* C13 amended: for every text wrapped in a fenced block whose payload holds
\* no run of three backticks of its own, the extraction returns what it
\* returns for the payload alone.
C13_FencedSameAsInnerWithoutFences ==
    (/\ dShape.wrap.fenced /\ (Extracted \/ ExtractFailed)
     /\ IndexOf(Inner(dShape), Fence, 1) = 0) =>
        ExtractionNow = ExtractionOf(Inner(dShape))

C13_Witness ==
    /\ Extracted
    /\ dShape.wrap = [fenced |-> TRUE, tag |-> <<"j", "s", "o", "n">>, ownLine |-> FALSE]
    /\ dShape.pre = HereYouGo /\ dShape.body = DeckAndCards /\ dShape.post = <<"}", "x">>
    /\ dJson = DeckAndCards

\* C17: the decoding is all-or-nothing: for every response text it either
\* returns a mapping that holds both 'deck' and 'cards', or raises an error;
\* a mapping that lacks one of the two keys is never returned.
C17_AllOrNothing ==
    /\ dPc = "returned" =>
          /\ dErr = NoneV
          /\ dData.t = "obj" /\ HasKey(dData, KeyDeck) /\ HasKey(dData, KeyCards)
    /\ dPc = "raised" => dErr # NoneV

C17_Witness ==
    /\ dPc = "raised"
    /\ dErr = "ValueError: Response missing 'deck' or 'cards' field"
    /\ dData.t = "obj" /\ HasKey(dData, KeyCards) /\ ~HasKey(dData, KeyDeck)

\* the response text of C18 and the mapping it stands for
HereYouGoText == <<"H", "e", "r", "e", " ", "y", "o", "u", " ", "g", "o", ":", " ", "{", Quote, "d", "e", "c", "k", Quote, ":", " ", Quote, "D", Quote, ",", " ", Quote, "c", "a", "r", "d", "s", Quote, ":", " ", "[", "]", "}", " ", "H", "o", "p", "e", " ", "t", "h", "a", "t", " ", "h", "e", "l", "p", "s", "!">>
HereYouGoShape == [pre |-> HereYouGo, body |-> DeckAndCards, post |-> HopeThatHelps, wrap |-> NoWrap]
HereYouGoData ==
    [t |-> "obj", v |-> <<[k |-> KeyDeck, v |-> [t |-> "str", v |-> <<"D">>]],
                          [k |-> KeyCards, v |-> [t |-> "arr", v |-> <<>>]]>>]

\* C18: decoding 'Here you go: {"deck": "D", "cards": []} Hope that helps!'
\* returns the mapping {deck: "D", cards: []}.
C18_HereYouGoDecoded ==
    dShape = HereYouGoShape =>
        /\ dPc = "response" => dResult = HereYouGoText
        /\ dPc # "raised"
        /\ dPc = "returned" => dData = HereYouGoData

C18_Witness ==
    /\ dShape = HereYouGoShape
    /\ dPc = "returned" /\ dData = HereYouGoData

\* the response objects that hold \(x+1\) as the deck, as the front of a
\* card, or as both
FormulaBodies ==
    {ObjectText(ms) : ms \in {<<DeckFormula, CardsEmpty>>, <<CardsEmpty, DeckFormula>>,
                             <<DeckD, CardsFrontFormula>>, <<CardsFrontFormula, DeckD>>,
                             <<DeckFormula, CardsFrontFormula>>}}

FormulaValue == [t |-> "str", v |-> InlineFormula]

\* the text of the member occurs in the text of the object
HasMember(body, member) == \E i \in 1..Len(body) : MatchAt(body, i, member)

\* C19: when a string value of the response object is \(x+1\), written with
\* single backslashes, the decoding succeeds and the decoded value of that
\* field is \(x+1\): extraction, escape repair, parsing and the math
\* post-processing together leave it as it was.
C19_InlineFormulaSurvives ==
    dShape.body \in FormulaBodies =>
        /\ dPc # "raised"
        /\ dPc = "returned" =>
              /\ HasMember(dShape.body, DeckFormula) => Get(dData, KeyDeck) = FormulaValue
              /\ HasMember(dShape.body, CardsFrontFormula) =>
                    /\ Len(Get(dData, KeyCards).v) = 1
                    /\ Get(Get(dData, KeyCards).v[1], KeyFront) = FormulaValue

C19_Witness ==
    /\ dPc = "returned"
    /\ dShape.body = ObjectText(<<DeckFormula, CardsFrontFormula>>)
    /\ dShape.wrap.fenced /\ dShape.pre = HereYouGo
    /\ IndexOf(dJson, <<Backslash, Backslash, "(">>, 1) # 0
    /\ Get(dData, KeyDeck) = FormulaValue
    /\ Get(Get(dData, KeyCards).v[1], KeyFront) = FormulaValue

\* C20: _fix_math_in_text is idempotent: for every text, one with runs of
\* backslashes or already written with the explicit markers included,
\* applying it twice equals applying it once.
C20_MathIdempotent ==
    Len(fHistory) = 3 => fHistory[3] = fHistory[2]

\* the tools ran to the end of compile_latex
rCompiled == rPc \in {"copy", "saved", "failed"}

\* C21: a run of the rendering toolchain counts as a success only when the
\* exit code is 0 and the expected artifact exists: the exam is handed on
\* to the model only when pdftoppm exited with 0 and left page images, and
\* the PDF is saved only when both pdflatex runs exited with 0 and the PDF
\* exists
C21_SuccessNeedsExitCodeAndArtifact ==
    /\ rPc \in {"solve", "compile", "copy", "saved", "failed"} =>
           rEnv.pdftoppm.returncode = 0 /\ rImages > 0
    /\ rPc = "saved" =>
           /\ \A n \in 1..LatexPasses : rEnv.pdflatex[n].returncode = 0
           /\ rPdfExists

TimedOut == "RuntimeError: File did not become ACTIVE"

\* how far transcribe_with_gemini has come: every step moves it forward
UploadStage ==
    CASE uPc = "upload" -> 0
      [] uPc = "poll" -> 1
      [] uPc = "generate" -> 2
      [] OTHER -> 3
UploadProgress == UploadStage + uPolls + uGenerated

\* C22: the readiness poll ends whatever the polls observe (every step moves
\* the call forward and at most max_wait / wait_interval polls are made);
\* the generation request is issued only after a poll observed ACTIVE; a
\* poll observing FAILED raises; and once the accumulated wait has reached
\* the ceiling the next step raises the timeout error, with no generation
\* request issued
C22_PollTerminates ==
    /\ [][UploadProgress' > UploadProgress]_vars
    /\ [](uPolls * WaitInterval <= MaxWait)
    /\ [](uPc = "generate" \/ uGenerated > 0 => uSeen = "ACTIVE")
    /\ [](uSeen = "FAILED" =>
            uPc = "raised" /\ uErr = "RuntimeError: File processing failed" /\ uGenerated = 0)
    /\ [][uPc = "poll" /\ uWaited >= MaxWait =>
            uPc' = "raised" /\ uErr' = TimedOut /\ uGenerated' = 0]_vars
    /\ [](uErr = TimedOut => uWaited >= MaxWait /\ uSeen # "ACTIVE" /\ uGenerated = 0)

\* the ceiling was reached after polls that all found the file in processing
C22_Witness ==
    uPc = "raised" /\ uErr = TimedOut /\ uWaited = MaxWait
        /\ uPolls = MaxWait \div WaitInterval /\ uSeen = "PROCESSING"

\* the extraction has acted on the text in result
dExtractionDone == dPc \in {"repair", "parse", "verify", "postprocess", "returned", "raised"}

\* NotFound: the text holds no opening brace
NotFound(text) == \A i \in 1..Len(text) : text[i] # "{"

\* opening minus closing braces from position from up to position to
Depth(text, from, to) ==
    Cardinality({i \in from..to : text[i] = "{"})
        - Cardinality({i \in from..to : text[i] = "}"})

\* Truncated: counted from the first opening brace, the depth is never 0
\* (it can only come to 0 at a closing brace)
Truncated(text) ==
    \E from \in 1..Len(text) :
        /\ text[from] = "{"
        /\ \A i \in 1..(from - 1) : text[i] # "{"
        /\ \A to \in from..Len(text) : text[to] = "}" => Depth(text, from, to) # 0

\* C23: the extraction fails in both failure conditions and hands on no
\* partial object: a text without an opening brace raises "No JSON object
\* found in response", a text whose braces never balance yields no json_str
\* and no data, and generate_flashcards raises instead of returning
C23_NotFoundAndTruncatedRaise ==
    dExtractionDone =>
        /\ NotFound(dResult) =>
               /\ dPc = "raised" /\ dErr = "ValueError: No JSON object found in response"
               /\ dJson = <<>> /\ dData = NoValue
        /\ Truncated(dResult) =>
               /\ dJson = <<>> /\ dData = NoValue
               /\ dPc \in {"repair", "parse", "raised"}
               /\ dPc = "raised" => dErr = "ValueError: LLM did not return valid JSON"

\* the object cut short before its closing brace has been refused
C23_Witness ==
    /\ dPc = "raised" /\ Truncated(dResult)
    /\ dResult = SubSeq(DeckAndCards, 1, Len(DeckAndCards) - 1)
    /\ dErr = "ValueError: LLM did not return valid JSON"

\* the three structural decode failures
DecodeFailures ==
    {"ValueError: No JSON object found in response",
     "ValueError: LLM did not return valid JSON",
     "ValueError: Response missing 'deck' or 'cards' field"}

\* C24: a structural decode failure is not retried: generate_flashcards
\* makes exactly one call_gemini call, and once the extraction, the parsing
\* or the required-key test has failed the call has ended, with that one
\* call made and no step left to take
C24_DecodeFailureNotRetried ==
    /\ [](dCalls <= 1)
    /\ [](dPc \in {"unwrap", "extract", "repair", "parse", "verify", "postprocess",
                   "returned", "raised"} => dCalls = 1)
    /\ [](dErr \in DecodeFailures => dPc = "raised" /\ dCalls = 1)
    /\ [][(dErr \in DecodeFailures) => (dCalls' = dCalls /\ dPc' = dPc)]_vars

\* an object with a trailing comma was refused by the parser after one call
C24_Witness ==
    /\ dPc = "raised" /\ dCalls = 1
    /\ dErr = "ValueError: LLM did not return valid JSON"
    /\ dShape.body = SubSeq(DeckAndCards, 1, Len(DeckAndCards) - 1) \o <<",", "}">>

\* a response without text
NullText(o) == o.kind = "response" /\ ~o.hasText

\* a null-text response that is not a content rejection: it has no
\* candidates, or its finish reason does not contain RECITATION
NullNotRejected(o) ==
    /\ NullText(o)
    /\ o.candidates = <<>> \/ o.candidates[1] \notin {"RECITATION", "IMAGE_RECITATION"}

\* C25: a null-text response that is not a content rejection is never
\* retried: no request ever follows one, so when it is the first response
\* exactly one request is made, and the call raises; and call_gemini never
\* returns when the text of the last response is null
C25_NullWithoutRejectionNotRetried ==
    /\ \A k \in 1..(Len(gOutcomes) - 1) : ~NullNotRejected(gOutcomes[k])
    /\ (gEnded /\ gOutcomes # <<>> /\ NullNotRejected(gOutcomes[1])) =>
           Len(gTemps) = 1 /\ gPc = "raised" /\ gErr = "ValueError"
    /\ (gEnded /\ gOutcomes # <<>> /\ NullText(Last(gOutcomes))) =>
           gPc = "raised" /\ gErr = "ValueError"
    /\ gPc = "returned" => Last(gOutcomes).kind = "response" /\ Last(gOutcomes).hasText

\* a safety block answered the only request, and the call raised
C25_Witness ==
    /\ gPc = "raised" /\ gErr = "ValueError" /\ Len(gTemps) = 1
    /\ gOutcomes = <<[kind |-> "response", hasText |-> FALSE, text |-> <<>>,
                      candidates |-> <<"SAFETY">>]>>

aEnded == aPc \in {"returned", "raised"}

\* an Anki-Connect error response whose text holds neither marker
NonRetryableError(o) ==
    /\ o.kind = "response" /\ o.wellFormed
    /\ ~o.error.isNone /\ ~o.error.internal /\ ~o.error.c500

\* an error response without a marker is raised at once: it is the last
\* request of the call, no wait follows it, and when it answers the first
\* request the call ends after one request and no wait, whatever max_retries
NonRetryableRaisedAtOnce ==
    \A k \in 1..Len(aOutcomes) :
        NonRetryableError(aOutcomes[k]) =>
            /\ k = Len(aOutcomes)
            /\ aPc = "raised" /\ aErr = "Anki-Connect error"
            /\ Len(aWaits) = k - 1

\* C26: an error response without 'INTERNAL' or '500' is raised at once,
\* after one request and no wait when it answers the first request, whatever
\* budget remains; and no wait follows the final attempt: once an attempt
\* has been made the number of waits is at most max_retries - 1, and a call
\* that has ended made fewer waits than requests
C26_NoWaitAfterFinalAttempt ==
    /\ NonRetryableRaisedAtOnce
    /\ aOutcomes # <<>> => Len(aWaits) <= aMax - 1
    /\ (aEnded /\ aOutcomes # <<>>) => Len(aWaits) < Len(aOutcomes)
    /\ aOutcomes = <<>> => aWaits = <<>>

\* with the full budget left, the first response was an error without a
\* marker and was raised without a wait
C26_Witness ==
    /\ aMax = DefaultMaxRetries /\ aPc = "raised" /\ aErr = "Anki-Connect error"
    /\ Len(aOutcomes) = 1 /\ NonRetryableError(aOutcomes[1]) /\ aWaits = <<>>

\* C27: one run of transcribe invokes exactly one backend, the selected
\* one: once the local backend is selected, by force or by the probe, the
\* remote one is never invoked, also when the local one ends the process
\* with a failure exit, and once the remote backend is selected the local
\* one is never invoked
C27_ExactlyOneBackend ==
    /\ [](Len(tBackends) <= 1)
    /\ [](tPc \in {"fix", "exit", "raised"} /\ tRan # NoneV =>
            tBackends = <<IF tUseGpu THEN "local" ELSE "remote">>)
    /\ [](tBackends # <<>> /\ tFallback = "gpu" => tBackends = <<"local">>)
    /\ [](tBackends # <<>> /\ tFallback = "gemini" => tBackends = <<"remote">>)
    /\ [](tBackends = <<"local">> /\ tRan = "exit" => tPc = "exit")
    /\ [][tBackends # <<>> => tBackends' = tBackends]_vars

\* the probe selected the local backend, which ended with a failure exit
C27_Witness ==
    /\ tFallback = "auto" /\ tUseGpu /\ tBackends = <<"local">>
    /\ tRan = "exit" /\ tPc = "exit"

\* the text holds an opening square bracket
HasBracket(text) == \E n \in 1..Len(text) : text[n] = "["

\* the remote call was made: the key is set and the prompt was loaded
RemoteCalled == iCall.hasKey /\ iCall.promptExists

\* C28: identify_speakers_and_fix returns the model's result, and only when
\* that result is not empty and holds "[", or else exactly the original
\* transcript: without an API key, with an empty or bracket-free result and
\* with any exception raised by the remote call it returns the original
\* transcript, and no exception leaves it
C28_ResultOrOriginal ==
    iPc # "call" =>
        /\ iPc = "returned" =>
               \/ iResult = iCall.transcript
               \/ /\ RemoteCalled /\ iCall.remote.kind = "return"
                  /\ iResult = iCall.remote.text
                  /\ iResult # <<>> /\ HasBracket(iResult)
        /\ ~iCall.hasKey => iPc = "returned" /\ iResult = iCall.transcript
        /\ (RemoteCalled /\ iCall.remote.kind = "raise") =>
               iPc = "returned" /\ iResult = iCall.transcript
        /\ (RemoteCalled /\ iCall.remote.kind = "return"
                /\ (iCall.remote.text = <<>> \/ ~HasBracket(iCall.remote.text))) =>
               iPc = "returned" /\ iResult = iCall.transcript
        /\ (RemoteCalled /\ iCall.remote.kind = "return"
                /\ iCall.remote.text # <<>> /\ HasBracket(iCall.remote.text)) =>
               iPc = "returned" /\ iResult = iCall.remote.text

\* a bracket-free result was dropped for the original transcript
C28_Witness ==
    /\ iPc = "returned" /\ RemoteCalled
    /\ iCall.remote = [kind |-> "return", text |-> <<"x">>]
    /\ iCall.transcript = <<"[", "a">> /\ iResult = <<"[", "a">>

\* how often the tag occurs in the file's tag list
TagCount == Cardinality({n \in 1..Len(kTags) : kTags[n] = AnkiTag})

\* the run that just ended added a card: it returned and Anki gave at least
\* one note id that is not null
CardAdded(run) == run.kind = "return" /\ \E n \in 1..Len(run.ids) : run.ids[n] # "null"

\* C29: process_file tags a file only when at least one card was added for
\* it: a run whose cards were all duplicates and a run that raised leave
\* the tags as they were; and after any number of runs the tag occurs at
\* most once in the tag list
C29_TaggedOnlyWhenCardAdded ==
    /\ [][kLog' # kLog /\ ~CardAdded(Last(kLog')) => kTags' = kTags]_vars
    /\ [][kTags' # kTags =>
            /\ kLog' # kLog /\ CardAdded(Last(kLog'))
            /\ kTags' = Append(kTags, AnkiTag) \/ kTags' = <<AnkiTag>>]_vars
    /\ [](TagCount <= 1)

\* a run of duplicates only left the file untagged, and the next run added
\* a card and tagged it
C29_Witness ==
    /\ Len(kLog) = 2
    /\ kLog[1] = [kind |-> "return", ids |-> <<"null">>]
    /\ kLog[2] = [kind |-> "return", ids |-> <<"id">>]
    /\ kTags = <<"todo", AnkiTag>>

\* the run that just ended wrote to the file itself (no --output)
nRanOnFile == nLog' # nLog /\ Last(nLog').outputIsFile

\* C30: over any sequence of runs of annotate_code on the same file with
\* the output left at the input, with or without --backup, the content of
\* file.bak is never modified once it exists, and every later run reads
\* file.bak and not the annotated file
C30_BackupNeverModified ==
    /\ [][(nBak # NoneV /\ (nRanOnFile \/ nLog' = nLog)) => nBak' = nBak]_vars
    /\ [][(nBak # NoneV /\ nRanOnFile) =>
            Last(nLog').read = "bak" /\ Last(nLog').content = nBak]_vars
    /\ [][(nBak # NoneV /\ nRanOnFile /\ Last(nLog').ending = "saved") =>
            \E m \in Annotators : nFile' = AnnotateCode(nBak, m)]_vars

\* the first run made the backup, the second annotated the backup again
\* and left it as it was
C30_Witness ==
    /\ Len(nLog) = 2
    /\ nLog[1] = [read |-> "file", content |-> Original, backup |-> TRUE,
                  outputIsFile |-> TRUE, ending |-> "saved"]
    /\ nLog[2] = [read |-> "bak", content |-> Original, backup |-> TRUE,
                  outputIsFile |-> TRUE, ending |-> "saved"]
    /\ nBak = Original /\ nFile = AnnotateCode(Original, "m2")

(***************************************************************************)
(* Specifications                                                          *)
(***************************************************************************)

ScriptsIdle == RenderIdle /\ UploadIdle /\ FixIdle /\ TagIdle /\ AnnotateIdle

PureIdle == EscapeIdle /\ MathIdle /\ DecodeIdle /\ ScriptsIdle

InitGemini == GeminiStart /\ AnkiIdle /\ TranscribeIdle /\ BatchIdle /\ PureIdle

NextGemini ==
    \/ GeminiGetClient
    \/ GeminiFirstAttempt
    \/ GeminiRetry15
    \/ GeminiRetry20
    \/ GeminiFinish

SpecGemini == InitGemini /\ [][NextGemini]_vars

InitAnki == GeminiIdle /\ AnkiStart /\ TranscribeIdle /\ BatchIdle /\ PureIdle

NextAnki ==
    \/ AnkiAttempt
    \/ AnkiExhausted

SpecAnki == InitAnki /\ [][NextAnki]_vars

InitTranscribe == GeminiIdle /\ AnkiIdle /\ TranscribeStart /\ BatchIdle /\ PureIdle

NextTranscribe ==
    \/ TranscribeCheckFile
    \/ TranscribeSelectBackend
    \/ TranscribeRun

SpecTranscribe == InitTranscribe /\ [][NextTranscribe]_vars

InitBatch == GeminiIdle /\ AnkiIdle /\ TranscribeIdle /\ BatchStart /\ PureIdle

NextBatch ==
    \/ BatchConnect
    \/ BatchItem
    \/ BatchSummary

SpecBatch == InitBatch /\ [][NextBatch]_vars

ProgramIdle == GeminiIdle /\ AnkiIdle /\ TranscribeIdle /\ BatchIdle

InitEscape == ProgramIdle /\ EscapeStart /\ MathIdle /\ DecodeIdle /\ ScriptsIdle

NextEscape == EscapeRepair

SpecEscape == InitEscape /\ [][NextEscape]_vars

InitMath == ProgramIdle /\ EscapeIdle /\ MathStart /\ DecodeIdle /\ ScriptsIdle

NextMath == MathTransform

SpecMath == InitMath /\ [][NextMath]_vars

InitDecode == ProgramIdle /\ EscapeIdle /\ MathIdle /\ DecodeStart /\ ScriptsIdle

NextDecode ==
    \/ DecodeReceive
    \/ DecodeUnwrap
    \/ DecodeExtract
    \/ DecodeRepair
    \/ DecodeParse
    \/ DecodeVerify
    \/ DecodeReturn

SpecDecode == InitDecode /\ [][NextDecode]_vars

AllButScriptsIdle == ProgramIdle /\ EscapeIdle /\ MathIdle /\ DecodeIdle

InitRender == AllButScriptsIdle /\ RenderStart /\ UploadIdle /\ FixIdle /\ TagIdle /\ AnnotateIdle

NextRender ==
    \/ RenderRasterize
    \/ RenderSolve
    \/ RenderCompile
    \/ RenderCopy

SpecRender == InitRender /\ [][NextRender]_vars

InitUpload == AllButScriptsIdle /\ RenderIdle /\ UploadStart /\ FixIdle /\ TagIdle /\ AnnotateIdle

NextUpload ==
    \/ UploadFile
    \/ UploadPoll
    \/ UploadTimeout
    \/ UploadGenerate

SpecUpload == InitUpload /\ [][NextUpload]_vars

InitFix == AllButScriptsIdle /\ RenderIdle /\ UploadIdle /\ FixStart /\ TagIdle /\ AnnotateIdle

NextFix == FixCall

SpecFix == InitFix /\ [][NextFix]_vars

InitTag == AllButScriptsIdle /\ RenderIdle /\ UploadIdle /\ FixIdle /\ TagStart /\ AnnotateIdle

NextTag == TagRun

SpecTag == InitTag /\ [][NextTag]_vars

InitAnnotate ==
    AllButScriptsIdle /\ RenderIdle /\ UploadIdle /\ FixIdle /\ TagIdle /\ AnnotateStart

NextAnnotate == AnnotateRun

SpecAnnotate == InitAnnotate /\ [][NextAnnotate]_vars

Init ==
    \/ InitGemini \/ InitAnki \/ InitTranscribe \/ InitBatch
    \/ InitEscape \/ InitMath \/ InitDecode
    \/ InitRender \/ InitUpload \/ InitFix \/ InitTag \/ InitAnnotate

Next ==
    \/ NextGemini \/ NextAnki \/ NextTranscribe \/ NextBatch
    \/ NextEscape \/ NextMath \/ NextDecode
    \/ NextRender \/ NextUpload \/ NextFix \/ NextTag \/ NextAnnotate

Spec == Init /\ [][Next]_vars

====
